---- MODULE Spec2Model ----
(***************************************************************************)
(* KSTool: a terminal dashboard for batch workloads (Kubernetes Jobs) and  *)
(* a template engine that turns a parameterised YAML document into a job   *)
(* submission.  The model follows the latest variant of the sources:       *)
(* the CommandHandler dispatcher (package main, VERSION 1.1.3) and the     *)
(* environment-variable based configuration form (package src).            *)
(*                                                                         *)
(* Strings whose content matters (names, template scalars) are sequences   *)
(* of one-character strings, so that prefix tests and regular-expression   *)
(* matching are computed and not assumed.                                  *)
(***************************************************************************)
EXTENDS Integers, Sequences, FiniteSets, TLC

VARIABLES
    \* ---- dispatcher (CommandHandler) ----
    view,          \* what h.app currently shows
    modalText,     \* which message the modal on screen carries
    modalJob,      \* the job name captured by the modal's closures
    jobs,          \* h.jobs, the stored snapshot
    table,         \* rows 1.. of h.table (row 0 is the header)
    selection,     \* selected row of h.table
    currentFilter, \* h.currentFilter
    currentSort,   \* h.currentSort
    showOnlyUser,  \* h.showOnlyUser
    elapsed,       \* whole seconds since h.lastRefresh, capped
    cluster,       \* the namespace as the control plane holds it
    calls,         \* client calls / subprocess launches of the last step
    \* ---- template parameter engine ----
    template,      \* ~/.kstool/base_apply.yaml, as the YAML parser sees it
    templateFile,  \* ~/.kstool/base_apply_template.yaml, likewise
    extracted,     \* what the latest extractEnvVars call returned
    previous,      \* what the call before it returned
    \* ---- configuration form (CreateJobForm) ----
    panel,         \* what the form has made the application's root
    returnTo,      \* the root an error modal restores when dismissed
    errorText,     \* the message of the error modal
    store,         \* ~/.kstool/env_config_list: name |-> document
    config,        \* the Config being handled: a record with field EnvVars
    configName,    \* the name captured by the action dialog
    formItems,     \* labels of the form's items, in the order added
    modified,      \* the form's modified flag
    perIteration,  \* the build gives each loop iteration its own variable
    editedData,    \* what an editing session left in the temporary file
    saved,         \* history: name |-> the ParameterSet last saved under it
    environ,       \* os.Environ() as the last step's applyJobConfig read it
    kubectlApply,  \* documents the last step handed to kubectl apply
    \* ---- pure-function harness ----
    fnIn,          \* the input the last application was given
    fnOut          \* what the function returned

dispVars == <<view, modalText, modalJob, jobs, table, selection,
              currentFilter, currentSort, showOnlyUser, elapsed,
              cluster, calls>>
tmplVars == <<template, templateFile, extracted, previous>>
edVars == <<panel, returnTo, errorText, store, config, configName,
            formItems, modified, perIteration, editedData, saved,
            environ, kubectlApply>>
fnVars == <<fnIn, fnOut>>
vars == <<dispVars, tmplVars, edVars, fnVars>>

----------------------------------------------------------------------------
(* Generic helpers *)

HasPrefix(s, prefix) ==
    /\ Len(prefix) <= Len(s)
    /\ SubSeq(s, 1, Len(prefix)) = prefix

Min(a, b) == IF a < b THEN a ELSE b

Range(s) == {s[i] : i \in DOMAIN s}

----------------------------------------------------------------------------
(* Constants of package main *)

USER_LABEL == "eidf/user"

REFRESH_INTERVAL == 2

FilterAll == 0
FilterRunning == 1
FilterFailed == 2
FilterPending == 3

SortAgeDesc == 0
SortAgeAsc == 1
SortGPUCountAsc == 2
SortGPUCountDesc == 3
SortDurationDesc == 4
SortDurationAsc == 5
SortGPUTypeDesc == 6
SortGPUTypeAsc == 7

----------------------------------------------------------------------------
(* deriveStatus *)

\* Variant: the Failed case tested before the Complete case.
deriveStatusFailedFirst(active, succeeded, failed) ==
    IF active > 0 THEN "Running"
    ELSE IF failed > 0 THEN "Failed"
    ELSE IF succeeded > 0 THEN "Complete"
    ELSE "Pending"

deriveStatus(active, succeeded, failed) ==
    IF active > 0 THEN "Running"
    ELSE IF succeeded > 0 THEN "Complete"
    ELSE IF failed > 0 THEN "Failed"
    ELSE "Pending"

----------------------------------------------------------------------------
(* Text helpers: decimal formatting, substring search, Sscanf's %d *)

DigitChars == <<"0", "1", "2", "3", "4", "5", "6", "7", "8", "9">>

RECURSIVE Itoa(_)
Itoa(n) ==
    IF n < 10 THEN <<DigitChars[n + 1]>>
    ELSE Itoa(n \div 10) \o <<DigitChars[(n % 10) + 1]>>

Contains(s, sub) ==
    \E i \in 1..(Len(s) - Len(sub) + 1) : SubSeq(s, i, i + Len(sub) - 1) = sub

IsDigit(c) == \E d \in 1..10 : DigitChars[d] = c

DigitVal(c) == (CHOOSE d \in 1..10 : DigitChars[d] = c) - 1

\* The digits of s from position i on: [val, next, ok]; ok is FALSE when no
\* digit stands at i (the verb %d then fails and the scan stops).
RECURSIVE ScanDigits(_, _, _, _)
ScanDigits(s, i, acc, any) ==
    IF i <= Len(s) /\ IsDigit(s[i])
    THEN ScanDigits(s, i + 1, acc * 10 + DigitVal(s[i]), TRUE)
    ELSE [val |-> acc, next |-> i, ok |-> any]

\* fmt.Sscanf(s, "%d<u1>%d<u2>...", ...) for a format that alternates %d and
\* one literal character: the values stored, in order; a variable the scan
\* never reached keeps its zero value.
RECURSIVE Sscanf(_, _, _)
Sscanf(s, i, units) ==
    IF units = <<>> THEN <<>>
    ELSE LET d == ScanDigits(s, i, 0, FALSE)
             zeros == [k \in 1..Len(units) |-> 0]
         IN  IF ~d.ok THEN zeros
             ELSE IF d.next <= Len(s) /\ s[d.next] = Head(units)
                  THEN <<d.val>> \o Sscanf(s, d.next + 1, Tail(units))
                  ELSE <<d.val>> \o Tail(zeros)

----------------------------------------------------------------------------
(* Resource summarizer: completions, fmtDuration, age, summarizeGPU *)

NoTime == -1

DASH == <<"-">>

\* The format with the hours left uncut.
fmtDHMWholeHours(total) ==
    LET days == total \div (24 * 60)
        hours == total \div 60
        minutes == total % 60
    IN  IF days > 0
        THEN Itoa(days) \o <<"d">> \o Itoa(hours) \o <<"h">> \o Itoa(minutes) \o <<"m">>
        ELSE IF hours > 0
             THEN Itoa(hours) \o <<"h">> \o Itoa(minutes) \o <<"m">>
             ELSE Itoa(minutes) \o <<"m">>

\* The three-way format shared by fmtDuration and age, on whole minutes.
fmtDHM(total) ==
    LET days == total \div (24 * 60)
        hours == (total \div 60) % 24
        minutes == total % 60
    IN  IF days > 0
        THEN Itoa(days) \o <<"d">> \o Itoa(hours) \o <<"h">> \o Itoa(minutes) \o <<"m">>
        ELSE IF hours > 0
             THEN Itoa(hours) \o <<"h">> \o Itoa(minutes) \o <<"m">>
             ELSE Itoa(minutes) \o <<"m">>

\* start and end are minutes before now; NoTime is a nil *metav1.Time.
fmtDuration(start, end) ==
    IF start = NoTime THEN DASH
    ELSE fmtDHM(start - (IF end = NoTime THEN 0 ELSE end))

age(created) == fmtDHM(created)

\* A parse that always scans the full format.
parseAgeFullFormat(a) ==
    LET v == Sscanf(a, 1, <<"d", "h", "m">>)
    IN  v[1] * 24 * 60 + v[2] * 60 + v[3]

parseAge(a) ==
    LET v == IF Contains(a, <<"d">>) THEN Sscanf(a, 1, <<"d", "h", "m">>)
             ELSE IF Contains(a, <<"h">>) THEN <<0>> \o Sscanf(a, 1, <<"h", "m">>)
             ELSE <<0, 0>> \o Sscanf(a, 1, <<"m">>)
    IN  v[1] * 24 * 60 + v[2] * 60 + v[3]

parseDuration(d) == IF d = DASH THEN 0 ELSE parseAge(d)

\* The hourglass emoji and the non-breaking hyphen of the sources are written
\* here as one ASCII character each: "W" and (in DASH) "-".
EMOJI_WAITING == <<"W">>

A100 == <<"A", "1", "0", "0">>
H100 == <<"H", "1", "0", "0">>
H200 == <<"H", "2", "0", "0">>
G40 == <<"4", "0", "G">>
G80 == <<"8", "0", "G">>

\* job: a cluster job record; containers is the number of containers of
\* its pod template and gpuModel the nvidia.com/gpu.product node selector
\* (<<>> when there is none).
summarizeGPU(job) ==
    IF job.containers = 0 THEN EMOJI_WAITING \o <<" ", "N", "o", " ", "C", "o", "n", "t", "a", "i", "n", "e", "r">>
    ELSE LET gpuModel == job.gpuModel
             modelType == IF Contains(gpuModel, A100) THEN A100
                          ELSE IF Contains(gpuModel, H100) THEN H100
                          ELSE IF Contains(gpuModel, H200) THEN H200
                          ELSE <<>>
             memory == IF Contains(gpuModel, G40 \o <<"B">>) \/ Contains(gpuModel, G40)
                       THEN G40
                       ELSE IF Contains(gpuModel, G80 \o <<"B">>) \/ Contains(gpuModel, G80)
                            THEN G80
                            ELSE <<>>
             isRunning == job.active > 0
         IN  IF modelType = <<>> THEN <<"U", "n", "k", "n", "o", "w", "n">>
             ELSE IF ~isRunning
                  THEN IF memory = <<>> THEN EMOJI_WAITING \o <<" ">> \o modelType
                       ELSE EMOJI_WAITING \o <<" ">> \o modelType \o <<"-">> \o memory
                  ELSE IF memory = <<>> THEN modelType
                       ELSE modelType \o <<"-">> \o memory

\* A rank whose family steps are as small as the memory steps.
getGPUTypePrioritySmallSteps(gpuType) ==
    LET basePriority == IF Contains(gpuType, H200) THEN 3
                        ELSE IF Contains(gpuType, H100) THEN 2
                        ELSE IF Contains(gpuType, A100) THEN 1
                        ELSE 0
        memoryPriority == IF Contains(gpuType, G80) \/ Contains(gpuType, G80 \o <<"B">>)
                          THEN 2
                          ELSE IF Contains(gpuType, G40) \/ Contains(gpuType, G40 \o <<"B">>)
                               THEN 1
                               ELSE 0
    IN  basePriority + memoryPriority

getGPUTypePriority(gpuType) ==
    LET basePriority == IF Contains(gpuType, H200) THEN 300
                        ELSE IF Contains(gpuType, H100) THEN 200
                        ELSE IF Contains(gpuType, A100) THEN 100
                        ELSE 0
        memoryPriority == IF Contains(gpuType, G80) \/ Contains(gpuType, G80 \o <<"B">>)
                          THEN 2
                          ELSE IF Contains(gpuType, G40) \/ Contains(gpuType, G40 \o <<"B">>)
                               THEN 1
                               ELSE 0
    IN  basePriority + memoryPriority

----------------------------------------------------------------------------
(* The cluster: what the control plane holds for the namespace *)

\* Identities: os.Getenv("USER") of this process, and somebody else.
CurrentUser == <<"a", "l">>
OtherUser == <<"b", "o">>

JobNames == {<<"a", "l", "1">>, <<"b", "o", "1">>}

\* The jobs the dispatcher specification follows through the namespace.
Watched == {<<"a", "l", "1">>}

\* The order in which a list call returns the jobs.
ListOrder == << <<"a", "l", "1">>, <<"b", "o", "1">> >>

\* Most pods, active, succeeded and failed together, a job has at one time.
MaxCount == 1

NoLabels == <<>>

LabelSets == {NoLabels} \cup {[k \in {USER_LABEL} |-> u] : u \in {CurrentUser, OtherUser}}

NoJob == [present |-> FALSE, labels |-> NoLabels,
          active |-> 0, succeeded |-> 0, failed |-> 0]

ClusterJobs ==
    {NoJob}
    \cup {c \in [present : {TRUE}, labels : LabelSets, active : 0..MaxCount,
                  succeeded : 0..MaxCount, failed : 0..MaxCount] :
             c.active + c.succeeded + c.failed <= MaxCount}

\* The parts of a job's spec and timestamps that do not change while the
\* dashboard runs: creation, start and completion in minutes before now,
\* the first container's nvidia.com/gpu limit and the node selector.
JobSpec(name) ==
    IF name = <<"a", "l", "1">>
    THEN [created |-> 65, startTime |-> 63, completionTime |-> NoTime,
          containers |-> 1, gpuLimit |-> 1,
          gpuModel |-> A100 \o <<"-">> \o G80 \o <<"B">>]
    ELSE IF name = <<"a", "l", "2">>
    THEN [created |-> 125, startTime |-> NoTime, completionTime |-> NoTime,
          containers |-> 1, gpuLimit |-> 2, gpuModel |-> H100]
    ELSE [created |-> 1505, startTime |-> NoTime, completionTime |-> NoTime,
          containers |-> 1, gpuLimit |-> 2, gpuModel |-> H100]

----------------------------------------------------------------------------
(* Snapshot builder: getJobs *)

toJob(name, cj) ==
    LET sp == JobSpec(name)
    IN  [Name |-> name,
         Status |-> deriveStatus(cj.active, cj.succeeded, cj.failed),
         Duration |-> fmtDuration(sp.startTime, sp.completionTime),
         Age |-> age(sp.created),
         GPUCount |-> IF sp.containers > 0 /\ sp.gpuLimit # 0 THEN sp.gpuLimit ELSE 0,
         GPUInfo |-> summarizeGPU([containers |-> sp.containers,
                                   gpuModel |-> sp.gpuModel,
                                   active |-> cj.active])]

\* Grouping that does not look at the kind of the owner.
RECURSIVE jobPodsAnyKind(_)
jobPodsAnyKind(podList) ==
    IF podList = <<>> THEN <<>>
    ELSE LET p == podList[Len(podList)]
             m == jobPodsAnyKind(SubSeq(podList, 1, Len(podList) - 1))
         IN  IF p.controller
             THEN (p.name :> (IF p.name \in DOMAIN m THEN m[p.name] ELSE 0) + 1) @@ m
             ELSE m

\* "Group pods by job name": how many pods of the list each name has got.
\* A pod is [controller, kind, name]: whether metav1.GetControllerOf finds
\* an owner reference, and that reference's Kind and Name.
RECURSIVE jobPods(_)
jobPods(podList) ==
    IF podList = <<>> THEN <<>>
    ELSE LET p == podList[Len(podList)]
             m == jobPods(SubSeq(podList, 1, Len(podList) - 1))
         IN  IF p.controller /\ p.kind = "Job"
             THEN (p.name :> (IF p.name \in DOMAIN m THEN m[p.name] ELSE 0) + 1) @@ m
             ELSE m

\* The Pods field of the records, in the order of the records: len of
\* jobPods[j.Name], which is 0 for a name that is no key.
podsColumn(js, podList) ==
    LET m == jobPods(podList)
    IN  [i \in 1..Len(js) |->
           Itoa(IF js[i].Name \in DOMAIN m THEN m[js[i].Name] ELSE 0)
           \o <<" ", "p", "o", "d", "s">>]

RECURSIVE jobsOf(_, _)
jobsOf(cl, order) ==
    IF order = <<>> THEN <<>>
    ELSE (IF Head(order) \in DOMAIN cl /\ cl[Head(order)].present
          THEN <<toJob(Head(order), cl[Head(order)])>>
          ELSE <<>>)
         \o jobsOf(cl, Tail(order))

\* A builder that hands back what it has when the pod list call fails.
getJobsPartial(cl, jobListOK, podListOK) ==
    IF ~jobListOK THEN [err |-> TRUE, jobs |-> <<>>]
    ELSE [err |-> ~podListOK, jobs |-> jobsOf(cl, ListOrder)]

\* [err, jobs]: the whole call fails when either list call fails.
getJobs(cl, jobListOK, podListOK) ==
    IF ~jobListOK THEN [err |-> TRUE, jobs |-> <<>>]
    ELSE IF ~podListOK THEN [err |-> TRUE, jobs |-> <<>>]
    ELSE [err |-> FALSE, jobs |-> jobsOf(cl, ListOrder)]

getJobsCalls(jobListOK, podListOK) ==
    IF ~jobListOK THEN <<[op |-> "ListJobs", name |-> <<>>, ok |-> FALSE]>>
    ELSE <<[op |-> "ListJobs", name |-> <<>>, ok |-> TRUE],
           [op |-> "ListPods", name |-> <<>>, ok |-> podListOK]>>

----------------------------------------------------------------------------
(* Filter / sort projection: filterJobsByStatus, sortJobs,
   updateTableWithFilter *)

\* A status filter that keeps the records of every other status.
filterJobsByOtherStatus(js, status) ==
    LET Keep(j) == j.Status # status IN SelectSeq(js, Keep)

filterJobsByStatus(js, status) ==
    LET Keep(j) == j.Status = status IN SelectSeq(js, Keep)

\* The comparators with the two GPU-count modes exchanged.
lessExchanged(mode, a, b) ==
    CASE mode = SortAgeDesc -> parseAge(a.Age) > parseAge(b.Age)
      [] mode = SortAgeAsc -> parseAge(a.Age) < parseAge(b.Age)
      [] mode = SortDurationDesc -> parseDuration(a.Duration) > parseDuration(b.Duration)
      [] mode = SortDurationAsc -> parseDuration(a.Duration) < parseDuration(b.Duration)
      [] mode = SortGPUCountAsc -> a.GPUCount > b.GPUCount
      [] mode = SortGPUCountDesc -> a.GPUCount < b.GPUCount
      [] mode = SortGPUTypeDesc -> getGPUTypePriority(a.GPUInfo) > getGPUTypePriority(b.GPUInfo)
      [] mode = SortGPUTypeAsc -> getGPUTypePriority(a.GPUInfo) < getGPUTypePriority(b.GPUInfo)
      [] OTHER -> FALSE

\* The less function sortJobs hands to sort.Slice for each mode.
less(mode, a, b) ==
    CASE mode = SortAgeDesc -> parseAge(a.Age) > parseAge(b.Age)
      [] mode = SortAgeAsc -> parseAge(a.Age) < parseAge(b.Age)
      [] mode = SortDurationDesc -> parseDuration(a.Duration) > parseDuration(b.Duration)
      [] mode = SortDurationAsc -> parseDuration(a.Duration) < parseDuration(b.Duration)
      [] mode = SortGPUCountAsc -> a.GPUCount < b.GPUCount
      [] mode = SortGPUCountDesc -> a.GPUCount > b.GPUCount
      [] mode = SortGPUTypeDesc -> getGPUTypePriority(a.GPUInfo) > getGPUTypePriority(b.GPUInfo)
      [] mode = SortGPUTypeAsc -> getGPUTypePriority(a.GPUInfo) < getGPUTypePriority(b.GPUInfo)
      [] OTHER -> FALSE

Perms(n) == {p \in [1..n -> 1..n] : \A i, j \in 1..n : i # j => p[i] # p[j]}

\* sort.Slice orders by less and promises no stability: every arrangement
\* of the input in which no element is less than one before it.
sortJobs(js, mode) ==
    {[i \in 1..Len(js) |-> js[p[i]]] :
        p \in {q \in Perms(Len(js)) :
                 \A i, j \in 1..Len(js) : i < j => ~less(mode, js[q[j]], js[q[i]])}}

statusOfFilter(f) ==
    CASE f = FilterRunning -> "Running"
      [] f = FilterFailed -> "Failed"
      [] f = FilterPending -> "Pending"
      [] OTHER -> "All"

\* An ownership test that looks for the user anywhere in the name.
ownJobsAnywhere(js, user) ==
    LET Mine(j) == Contains(j.Name, user) IN SelectSeq(js, Mine)

\* The loop of the showOnlyUser branch, for h.currentUser = user.
ownJobs(js, user) ==
    LET Mine(j) == HasPrefix(j.Name, user) IN SelectSeq(js, Mine)

\* The list before sorting, and whether it still is h.jobs' own backing
\* array (the unfiltered case), which sortJobs then reorders in place.
filteredJobs(js, only, f) ==
    LET byUser == IF only THEN ownJobs(js, CurrentUser) ELSE js
    IN  IF f = FilterAll THEN byUser ELSE filterJobsByStatus(byUser, statusOfFilter(f))

sortsInPlace(only, f) == ~only /\ f = FilterAll

\* updateTableWithFilter as a relation on (h.jobs, h.table): the primed
\* values for snapshot js and filter state (only, f, mode).
updateTableWithFilter(js, only, f, mode) ==
    \E sorted \in sortJobs(filteredJobs(js, only, f), mode) :
        /\ table' = sorted
        /\ jobs' = IF sortsInPlace(only, f) THEN sorted ELSE js
        /\ selection' = Min(selection, Len(sorted))

----------------------------------------------------------------------------
(* Template documents *)

\* A parsed YAML value: a string scalar, any other scalar, a sequence or
\* a mapping.  The entries of a mapping are kept in document order; their
\* keys are distinct and are never searched, so they are left implicit.
Str(s) == [kind |-> "str", val |-> s, items |-> <<>>]
NonStr == [kind |-> "int", val |-> <<>>, items |-> <<>>]
SeqNode(items) == [kind |-> "seq", val |-> <<>>, items |-> items]
MapNode(items) == [kind |-> "map", val |-> <<>>, items |-> items]

\* Text yaml.Unmarshal cannot turn into a map[string]interface{}.
Unparsable == [kind |-> "invalid", val |-> <<>>, items |-> <<>>]

\* A file that does not exist: os.ReadFile and os.Stat fail on it.
NoFile == [kind |-> "absent", val |-> <<>>, items |-> <<>>]

Placeholder(name, default) ==
    <<"$", "{">> \o name \o <<":", "-">> \o default \o <<"}">>

\* The pieces string scalars are made of.
Tokens ==
    {Placeholder(<<"A">>, <<"x">>), Placeholder(<<"A">>, <<"y">>),
     Placeholder(<<"B">>, <<"x">>), <<"t">>}

\* Most pieces in one scalar, most scalars in one document, deepest nesting.
MaxTokens == 2
MaxLeaves == 2
MaxDepth == 2

RECURSIVE ScalarsOf(_)
ScalarsOf(n) ==
    IF n = 0 THEN {<<>>}
    ELSE ScalarsOf(n - 1) \cup {s \o t : s \in ScalarsOf(n - 1), t \in Tokens}

Leaves == {Str(s) : s \in ScalarsOf(MaxTokens)} \cup {NonStr}

\* NodesOf(d, n): the values nested at most d deep that hold n scalars;
\* ListsOf(d, n): the non-empty sequences of such values holding n in all.
RECURSIVE NodesOf(_, _), ListsOf(_, _)
NodesOf(d, n) ==
    (IF n = 1 THEN Leaves ELSE {})
    \cup (IF d = 0 THEN {}
          ELSE {SeqNode(l) : l \in ListsOf(d - 1, n)}
               \cup {MapNode(l) : l \in ListsOf(d - 1, n)})

ListsOf(d, n) ==
    {<<x>> : x \in NodesOf(d, n)}
    \cup UNION {{<<x>> \o r : x \in NodesOf(d, m), r \in ListsOf(d, n - m)} :
                  m \in 1..(n - 1)}

\* The documents nested at most depth deep that hold at most leaves scalars.
Documents(depth, leaves) ==
    {Unparsable, MapNode(<<>>)}
    \cup UNION {{MapNode(l) : l \in ListsOf(depth - 1, n)} : n \in 1..leaves}

----------------------------------------------------------------------------
(* extractEnvVars *)

\* First position from i on that holds a character of stop, or Len(s) + 1.
RunEnd(s, i, stop) ==
    LET ends == {j \in i..(Len(s) + 1) : j = Len(s) + 1 \/ s[j] \in stop}
    IN  CHOOSE j \in ends : \A k \in ends : j <= k

\* The regular expression \${([^:}]+):-([^}]+)} tried at position i.
matchAt(s, i) ==
    LET nameEnd == RunEnd(s, i + 2, {":", "}"})
        defEnd == RunEnd(s, nameEnd + 2, {"}"})
        ok == /\ i + 1 <= Len(s)
              /\ s[i] = "$"
              /\ s[i + 1] = "{"
              /\ nameEnd > i + 2
              /\ nameEnd + 1 <= Len(s)
              /\ s[nameEnd] = ":"
              /\ s[nameEnd + 1] = "-"
              /\ defEnd > nameEnd + 2
              /\ defEnd <= Len(s)
    IN  IF ok
        THEN [ok |-> TRUE, name |-> SubSeq(s, i + 2, nameEnd - 1),
              default |-> SubSeq(s, nameEnd + 2, defEnd - 1), end |-> defEnd]
        ELSE [ok |-> FALSE, name |-> <<>>, default |-> <<>>, end |-> i]

\* regexp.FindStringSubmatch on s from position from: the leftmost match.
findFrom(s, from) ==
    LET starts == {i \in from..Len(s) : matchAt(s, i).ok}
    IN  IF starts = {} THEN matchAt(s, Len(s) + 1)
        ELSE matchAt(s, CHOOSE i \in starts : \A k \in starts : i <= k)

FindStringSubmatch(s) == findFrom(s, 1)

\* The scalars of a value in the orders the search can visit them: a
\* sequence is ranged in order, a Go map in an order the runtime picks.
RECURSIVE visitOrders(_), visitInOrder(_)
visitInOrder(items) ==
    IF items = <<>> THEN {<<>>}
    ELSE {a \o b : a \in visitOrders(Head(items)), b \in visitInOrder(Tail(items))}

visitOrders(node) ==
    CASE node.kind = "str" -> {<<node.val>>}
      [] node.kind = "seq" -> visitInOrder(node.items)
      [] node.kind = "map" ->
            UNION {visitInOrder([i \in 1..Len(node.items) |-> node.items[p[i]]]) :
                     p \in Perms(Len(node.items))}
      [] OTHER -> {<<>>}

\* The body of searchEnvVars on the strings in the order visited.
RECURSIVE searchEnvVars(_, _)
searchEnvVars(strings, envVars) ==
    IF strings = <<>> THEN envVars
    ELSE LET matches == FindStringSubmatch(Head(strings))
         IN  IF matches.ok /\ matches.name \notin DOMAIN envVars
             THEN searchEnvVars(Tail(strings),
                                envVars @@ (matches.name :> matches.default))
             ELSE searchEnvVars(Tail(strings), envVars)

NoEnvVars == <<>>

\* Every result extractEnvVars can return for a document.
extractEnvVars(doc) ==
    IF doc.kind # "map" THEN {[state |-> "error", envVars |-> NoEnvVars]}
    ELSE {[state |-> "ok", envVars |-> searchEnvVars(order, NoEnvVars)] :
             order \in visitOrders(doc)}

NotExtracted == [state |-> "none", envVars |-> NoEnvVars]

\* The template engine at rest, for the specifications that do not run it.
TmplIdle ==
    /\ template = MapNode(<<>>)
    /\ templateFile = MapNode(<<>>)
    /\ extracted = NotExtracted
    /\ previous = NotExtracted

----------------------------------------------------------------------------
(* YAML documents of the configuration store and of editing sessions *)

\* A document is text the parser rejects, or a mapping from keys to
\* values; a value is a scalar or itself a mapping of scalars.
YamlScalar(v) == [kind |-> "str", val |-> v, entries |-> <<>>]
YamlMapping(f) == [kind |-> "map", val |-> <<>>, entries |-> f]
YamlInvalid == [kind |-> "invalid", val |-> <<>>, entries |-> <<>>]

ENV_VARS == <<"e", "n", "v", "_", "v", "a", "r", "s">>

\* yaml.Marshal(config.EnvVars): one top-level entry per parameter.
Marshal(ev) == YamlMapping([k \in DOMAIN ev |-> YamlScalar(ev[k])])

\* yaml.Unmarshal(data, &newEnvVars) with newEnvVars a map[string]string.
\* The decoder fills in the entries it can convert and reports the others.
UnmarshalEnvVars(text) ==
    IF text.kind # "map" THEN [err |-> TRUE, envVars |-> NoEnvVars]
    ELSE LET good == {k \in DOMAIN text.entries : text.entries[k].kind = "str"}
         IN  [err |-> good # DOMAIN text.entries,
              envVars |-> [k \in good |-> text.entries[k].val]]

\* yaml.Unmarshal(data, &config) with config a Config: only the entry
\* tagged env_vars is read, any other entry is ignored.
UnmarshalConfig(text) ==
    IF text.kind # "map" THEN [err |-> TRUE, envVars |-> NoEnvVars]
    ELSE IF ENV_VARS \notin DOMAIN text.entries
         THEN [err |-> FALSE, envVars |-> NoEnvVars]
         ELSE IF text.entries[ENV_VARS].kind # "map"
              THEN [err |-> TRUE, envVars |-> NoEnvVars]
              ELSE UnmarshalEnvVars(text.entries[ENV_VARS])

\* Names the user types in the save dialog; "" is the empty input.
ConfigNames == {"job"}

\* loadConfig(name) on the store as it is.
loadConfig(files, name) == UnmarshalConfig(files[name])

\* The name under which the list directory would hold a file called like
\* the base template.
BASE_APPLY == "base_apply"

\* loadConfigList: the names of the files of the list directory (each
\* file is name + ".yaml"), but for base_apply.yaml.
loadConfigList(files) == {n \in DOMAIN files : n # BASE_APPLY}

\* deleteConfig(name): the store after a successful os.Remove.
deleteConfig(files, name) == [n \in DOMAIN files \ {name} |-> files[n]]

\* saveConfig(name, config): the store after a successful write.
saveConfig(files, name, ev) ==
    [n \in DOMAIN files \cup {name} |-> IF n = name THEN Marshal(ev) ELSE files[n]]

\* What the user can leave behind in an editing session that started
\* from the ParameterSet ev: broken text, the document untouched, or the
\* document with one value replaced, one line removed or one line added.
EditKeys == {<<"A">>, <<"B">>, <<"Z">>}
EditValues == {YamlScalar(<<"x">>), YamlScalar(<<"y">>), YamlMapping(<<>>)}
EditedTexts(ev) ==
    LET doc == Marshal(ev).entries
    IN  {YamlInvalid, YamlMapping(doc)}
        \cup {YamlMapping([doc EXCEPT ![k] = v]) : k \in DOMAIN doc, v \in EditValues}
        \cup {YamlMapping([j \in DOMAIN doc \ {k} |-> doc[j]]) : k \in DOMAIN doc}
        \cup {YamlMapping((k :> v) @@ doc) : k \in EditKeys \ DOMAIN doc, v \in EditValues}

\* Text typed into an input field of the form.
FieldTexts == {<<"x">>, <<"y">>}

NoText == [kind |-> "none", val |-> <<>>, entries |-> <<>>]

NoConfig == [EnvVars |-> NoEnvVars]

\* The process environment when no variable of interest is set.
NoEnviron == <<>>

\* A step that does not run applyJobConfig.
noApply ==
    /\ environ' = NoEnviron
    /\ kubectlApply' = <<>>

\* The form at rest, for the specifications that do not run it.
EdIdle ==
    /\ panel = "Closed"
    /\ returnTo = ""
    /\ errorText = ""
    /\ store = <<>>
    /\ config = NoConfig
    /\ configName = ""
    /\ formItems = <<>>
    /\ modified = FALSE
    /\ perIteration = TRUE
    /\ editedData = NoText
    /\ saved = <<>>
    /\ environ = NoEnviron
    /\ kubectlApply = <<>>

----------------------------------------------------------------------------
(* Configuration form: CreateJobForm *)

\* showError(app, root, message): a modal that restores root when dismissed.
showError(root, message) ==
    /\ panel' = "ErrorModal"
    /\ returnTo' = root
    /\ errorText' = message

\* The orders in which ranging over a Go map can produce its keys.
rangeOrders(m) ==
    {o \in [1..Cardinality(DOMAIN m) -> DOMAIN m] :
        \A i, j \in DOMAIN o : i # j => o[i] # o[j]}

\* Callbacks that all write the key of the first item.
callbackKeyFirst(items, i) == items[1]

\* The key the changed-callback of item i writes: the callbacks close over
\* the loop variable of createConfigForm, which is one variable per
\* iteration or one for the whole loop depending on the language version
\* the module is built for.
callbackKey(items, i) ==
    IF perIteration THEN items[i] ELSE items[Len(items)]

\* createConfigForm(config): one input field per entry of config.EnvVars.
\* (The templates followed here declare no GPU_PRODUCT, so every item is
\* an input field.)
createConfigForm(cfg) ==
    /\ config' = cfg
    /\ formItems' \in rangeOrders(cfg.EnvVars)
    /\ modified' = FALSE
    /\ panel' = "ConfigForm"

\* showConfigList: the list of stored configurations becomes the root.
showConfigList ==
    /\ panel' = "ConfigList"
    /\ config' = NoConfig
    /\ configName' = ""
    /\ formItems' = <<>>
    /\ modified' = FALSE

\* "Create New Configuration": loadBaseConfig, then the form.
createNew ==
    /\ panel = "ConfigList"
    /\ \E r \in extractEnvVars(template) :
         /\ extracted' = r
         /\ previous' = extracted
         /\ IF r.state = "error"
            THEN /\ showError("ConfigList", "Failed to load base config")
                 /\ UNCHANGED <<config, formItems, modified>>
            ELSE /\ createConfigForm([EnvVars |-> r.envVars])
                 /\ UNCHANGED <<returnTo, errorText>>
    /\ editedData' = NoText
    /\ noApply
    /\ UNCHANGED <<template, templateFile, store, configName, perIteration, saved,
                   dispVars, fnVars>>

\* Selecting a stored configuration: loadConfig, then the action dialog.
selectConfig ==
    /\ panel = "ConfigList"
    /\ \E name \in loadConfigList(store), readOK \in BOOLEAN :
         LET r == loadConfig(store, name)
         IN  IF ~readOK \/ r.err
             THEN /\ showError("ConfigList",
                               IF readOK THEN "failed to parse config file"
                               ELSE "failed to read config file")
                  /\ UNCHANGED <<config, configName>>
             ELSE /\ panel' = "ActionDialog"
                  /\ config' = [EnvVars |-> r.envVars]
                  /\ configName' = name
                  /\ UNCHANGED <<returnTo, errorText>>
    /\ editedData' = NoText
    /\ noApply
    /\ UNCHANGED <<store, formItems, modified, perIteration, saved,
                   tmplVars, dispVars, fnVars>>

\* Action dialog, button "Change".
actionChange ==
    /\ panel = "ActionDialog"
    /\ createConfigForm(config)
    /\ editedData' = NoText
    /\ noApply
    /\ UNCHANGED <<returnTo, errorText, store, configName, perIteration, saved,
                   tmplVars, dispVars, fnVars>>

\* Action dialog, button "Back".
actionBack ==
    /\ panel = "ActionDialog"
    /\ panel' = "ConfigList"
    /\ config' = NoConfig
    /\ configName' = ""
    /\ editedData' = NoText
    /\ noApply
    /\ UNCHANGED <<returnTo, errorText, store, formItems, modified,
                   perIteration, saved, tmplVars, dispVars, fnVars>>

\* The user types text into the input field of item i: its
\* changed-callback runs.
fieldEditOf(i, text) ==
    /\ panel = "ConfigForm"
    /\ config' = [EnvVars |-> (callbackKey(formItems, i) :> text) @@ config.EnvVars]
    /\ modified' = TRUE

fieldEdit ==
    /\ \E i \in 1..Len(formItems), text \in FieldTexts : fieldEditOf(i, text)
    /\ editedData' = NoText
    /\ noApply
    /\ UNCHANGED <<panel, returnTo, errorText, store, configName, formItems,
                   perIteration, saved, tmplVars, dispVars, fnVars>>

\* An editing session that hands back a document no ParameterSet can be
\* read from is answered as if the re-import had succeeded.
reimportBeforeCheck(old, text) == UnmarshalEnvVars(text).envVars

\* config.EnvVars after the re-import of an editing session: the decoded
\* map is assigned only behind the error check.
reimport(old, text) ==
    LET r == UnmarshalEnvVars(text)
    IN  IF r.err THEN old ELSE r.envVars

\* "Update the form fields": ranging over the new map, the item at
\* formIndex is given the value of the entry visited, which runs that
\* item's changed-callback on the map being ranged over.  An entry the
\* callback creates may or may not be visited; an index past the last
\* item ends the program.  orig are the keys the loop must visit.
RECURSIVE updateFormFields(_, _, _, _, _)
updateFormFields(m, orig, visited, formIndex, items) ==
    (IF orig \subseteq visited THEN {[crashed |-> FALSE, envVars |-> m]} ELSE {})
    \cup UNION {
           IF formIndex > Len(items)
           THEN {[crashed |-> TRUE, envVars |-> m]}
           ELSE updateFormFields((callbackKey(items, formIndex) :> m[envVar]) @@ m,
                                 orig, visited \cup {envVar}, formIndex + 1, items) :
           envVar \in DOMAIN m \ visited}

\* "Edit in Vim".
editInVim ==
    /\ panel = "ConfigForm"
    /\ noApply
    /\ \/ /\ showError("ConfigForm", "Failed to run Vim")
          /\ editedData' = NoText
          /\ UNCHANGED <<config, modified>>
       \/ \E text \in EditedTexts(config.EnvVars) :
            /\ editedData' = text
            /\ IF UnmarshalEnvVars(text).err
               THEN /\ showError("ConfigForm", "Invalid YAML format")
                    /\ config' = [EnvVars |-> reimport(config.EnvVars, text)]
                    /\ UNCHANGED modified
               ELSE LET newEnvVars == reimport(config.EnvVars, text)
                    IN  \E r \in updateFormFields(newEnvVars, DOMAIN newEnvVars,
                                                  {}, 1, formItems) :
                          /\ config' = [EnvVars |-> r.envVars]
                          /\ panel' = IF r.crashed THEN "Crashed" ELSE panel
                          /\ modified' = TRUE
                          /\ UNCHANGED <<returnTo, errorText>>
    /\ UNCHANGED <<store, configName, formItems, perIteration, saved,
                   tmplVars, dispVars, fnVars>>

\* "Save Config": the save dialog opens and the flag is cleared.
saveButton ==
    /\ panel = "ConfigForm"
    /\ panel' = "SaveDialog"
    /\ modified' = FALSE
    /\ editedData' = NoText
    /\ noApply
    /\ UNCHANGED <<returnTo, errorText, store, config, configName, formItems,
                   perIteration, saved, tmplVars, dispVars, fnVars>>

\* Save dialog, Enter or button "Save", for the names the user may type.
saveDialogSaveOf(names) ==
    /\ panel = "SaveDialog"
    /\ \E name \in names \cup {""}, writeOK \in BOOLEAN :
         IF name = ""
         THEN /\ showError("ConfigForm", "Configuration name cannot be empty")
              /\ UNCHANGED <<store, saved, config, configName, formItems, modified>>
         ELSE IF ~writeOK
         THEN /\ showError("ConfigForm", "Failed to save config")
              /\ UNCHANGED <<store, saved, config, configName, formItems, modified>>
         ELSE /\ store' = saveConfig(store, name, config.EnvVars)
              /\ saved' = (name :> config.EnvVars) @@ saved
              /\ showConfigList
              /\ UNCHANGED <<returnTo, errorText>>
    /\ editedData' = NoText
    /\ noApply
    /\ UNCHANGED <<perIteration, tmplVars, dispVars, fnVars>>

saveDialogSave == saveDialogSaveOf(ConfigNames)

\* Save dialog, Escape or button "Cancel".
saveDialogCancel ==
    /\ panel = "SaveDialog"
    /\ panel' = "ConfigForm"
    /\ editedData' = NoText
    /\ noApply
    /\ UNCHANGED <<returnTo, errorText, store, config, configName, formItems,
                   modified, perIteration, saved, tmplVars, dispVars, fnVars>>

\* "Back": straight to the list, or by way of the unsaved-changes modal.
backButton ==
    /\ panel = "ConfigForm"
    /\ IF modified
       THEN /\ panel' = "UnsavedModal"
            /\ UNCHANGED <<config, configName, formItems, modified>>
       ELSE showConfigList
    /\ editedData' = NoText
    /\ noApply
    /\ UNCHANGED <<returnTo, errorText, store, perIteration, saved,
                   tmplVars, dispVars, fnVars>>

\* Unsaved-changes modal: "Yes" goes to the list, anything else back.
unsavedModalDone ==
    /\ panel = "UnsavedModal"
    /\ \E buttonLabel \in {"Yes", "Cancel", ""} :
         IF buttonLabel = "Yes" THEN showConfigList
         ELSE /\ panel' = "ConfigForm"
              /\ UNCHANGED <<config, configName, formItems, modified>>
    /\ editedData' = NoText
    /\ noApply
    /\ UNCHANGED <<returnTo, errorText, store, perIteration, saved,
                   tmplVars, dispVars, fnVars>>

\* List, key 'd' on a stored configuration: the confirmation modal.
deleteKey ==
    /\ panel = "ConfigList"
    /\ \E name \in loadConfigList(store) :
         /\ panel' = "DeleteModal"
         /\ configName' = name
    /\ editedData' = NoText
    /\ noApply
    /\ UNCHANGED <<returnTo, errorText, store, config, formItems, modified,
                   perIteration, saved, tmplVars, dispVars, fnVars>>

\* The names of saved with one of them forgotten.
forget(m, name) == [n \in DOMAIN m \ {name} |-> m[n]]

\* The done function of the confirmation modal, label "Delete":
\* deleteConfig, then the list again.
deleteModalDelete ==
    /\ panel = "DeleteModal"
    /\ \E removeOK \in BOOLEAN :
         IF removeOK
         THEN /\ store' = deleteConfig(store, configName)
              /\ saved' = forget(saved, configName)
              /\ showConfigList
              /\ UNCHANGED <<returnTo, errorText>>
         ELSE /\ showError("ConfigList", "Failed to delete configuration")
              /\ configName' = ""
              /\ UNCHANGED <<store, saved, config, formItems, modified>>
    /\ editedData' = NoText
    /\ noApply
    /\ UNCHANGED <<perIteration, tmplVars, dispVars, fnVars>>

\* Variant: the file is removed whatever the label.
deleteModalCancelRemoves ==
    /\ panel = "DeleteModal"
    /\ store' = deleteConfig(store, configName)
    /\ saved' = forget(saved, configName)
    /\ showConfigList
    /\ editedData' = NoText
    /\ noApply
    /\ UNCHANGED <<returnTo, errorText, perIteration, tmplVars, dispVars, fnVars>>

\* The same done function with any other label: "Cancel", or "" when the
\* modal is left with Escape.
deleteModalCancel ==
    /\ panel = "DeleteModal"
    /\ panel' = "ConfigList"
    /\ configName' = ""
    /\ editedData' = NoText
    /\ noApply
    /\ UNCHANGED <<returnTo, errorText, store, config, formItems, modified,
                   perIteration, saved, tmplVars, dispVars, fnVars>>

\* The error modal is dismissed: its root comes back.
errorDone ==
    /\ panel = "ErrorModal"
    /\ panel' = returnTo
    /\ returnTo' = ""
    /\ errorText' = ""
    /\ editedData' = NoText
    /\ noApply
    /\ UNCHANGED <<store, config, configName, formItems,
                   modified, perIteration, saved, tmplVars, dispVars, fnVars>>

----------------------------------------------------------------------------
(* Rendering and apply: downloadBaseConfig's template, applyJobConfig *)

\* regexp.ReplaceAllString(content, "$$$1") on one scalar from position
\* from: every match of the placeholder pattern becomes "$" and its name.
\* A replacement of the leftmost match alone.
replaceFirstFrom(s, from) ==
    LET m == findFrom(s, from)
    IN  IF m.ok
        THEN SubSeq(s, from, m.end - Len(m.name) - Len(m.default) - 5)
             \o <<"$">> \o m.name \o SubSeq(s, m.end + 1, Len(s))
        ELSE SubSeq(s, from, Len(s))

RECURSIVE replaceAllFrom(_, _)
replaceAllFrom(s, from) ==
    LET m == findFrom(s, from)
    IN  IF m.ok
        THEN SubSeq(s, from, m.end - Len(m.name) - Len(m.default) - 5)
             \o <<"$">> \o m.name \o replaceAllFrom(s, m.end + 1)
        ELSE SubSeq(s, from, Len(s))

\* base_apply_template.yaml as downloadBaseConfig derives it from the
\* base template.
RECURSIVE processedContent(_)
processedContent(node) ==
    IF node.kind = "str" THEN Str(replaceAllFrom(node.val, 1))
    ELSE [node EXCEPT !.items = [i \in DOMAIN node.items |-> processedContent(node.items[i])]]

\* Characters a variable name is made of, as far as the texts here go.
NameChars == {"A", "B", "Z", "t", "v", "x", "y", "_"}

\* envsubst on one scalar from position i: "$" followed by a name becomes
\* the value of that variable, or nothing when the variable is not set.
\* (No text here holds the braced form of a reference.)
RECURSIVE envsubstFrom(_, _, _)
envsubstFrom(s, i, env) ==
    IF i > Len(s) THEN <<>>
    ELSE IF s[i] = "$" /\ i + 1 <= Len(s) /\ s[i + 1] \in NameChars
         THEN LET nameEnd == RunEnd(s, i + 1, {"$", "{", "}", ":", "-"})
                  name == SubSeq(s, i + 1, nameEnd - 1)
              IN  (IF name \in DOMAIN env THEN env[name] ELSE <<>>)
                  \o envsubstFrom(s, nameEnd, env)
         ELSE <<s[i]>> \o envsubstFrom(s, i + 1, env)

RECURSIVE envsubst(_, _)
envsubst(node, env) ==
    IF node.kind = "str" THEN Str(envsubstFrom(node.val, 1, env))
    ELSE [node EXCEPT !.items = [i \in DOMAIN node.items |-> envsubst(node.items[i], env)]]

\* What os.Environ() can hold for the names the templates use.
Environs == {NoEnviron, <<"B">> :> <<"v">>}

\* cmd.Env: the process environment with the ParameterSet appended; of
\* two entries for one name the later one is the one the child sees.
cmdEnv(ambient, ev) == ev @@ ambient

\* applyJobConfig(config) in the process environment ambient: the error it
\* returns ("" for nil) and the documents it handed to kubectl apply.
applyJobConfig(cfg, ambient, envsubstOK, kubectlOK) ==
    LET output == envsubst(templateFile, cmdEnv(ambient, cfg.EnvVars))
    IN  IF templateFile = NoFile
        THEN [err |-> "failed to read template config", applied |-> <<>>]
        ELSE IF ~envsubstOK THEN [err |-> "failed to run envsubst", applied |-> <<>>]
        ELSE IF ~kubectlOK
             THEN [err |-> "failed to apply configuration", applied |-> <<output>>]
             ELSE [err |-> "", applied |-> <<output>>]

\* A callback that only puts the main view back.
closeCallbackNoRefresh ==
    /\ calls' = <<>>
    /\ UNCHANGED <<jobs, table, selection>>
    /\ view' = "MainView"
    /\ modalText' = ""
    /\ modalJob' = <<>>

\* The onClose callback handleNewConfig hands to the form: take a new
\* snapshot, show it when there is one, and put the main view back.
closeCallback ==
    /\ \E jobListOK, podListOK \in BOOLEAN :
         LET r == getJobs(cluster, jobListOK, podListOK)
         IN  /\ calls' = getJobsCalls(jobListOK, podListOK)
             /\ IF ~r.err
                THEN updateTableWithFilter(r.jobs, showOnlyUser,
                                           currentFilter, currentSort)
                ELSE UNCHANGED <<jobs, table, selection>>
    /\ view' = "MainView"
    /\ modalText' = ""
    /\ modalJob' = <<>>

\* f.onClose(): the form is left behind and the callback runs.
onClose ==
    /\ panel' = "Closed"
    /\ config' = NoConfig
    /\ configName' = ""
    /\ formItems' = <<>>
    /\ modified' = FALSE
    /\ closeCallback
    /\ UNCHANGED <<currentFilter, currentSort, showOnlyUser, elapsed, cluster>>

\* List, item "Exit".
exitList ==
    /\ panel = "ConfigList"
    /\ onClose
    /\ editedData' = NoText
    /\ noApply
    /\ UNCHANGED <<returnTo, errorText, store, perIteration, saved, tmplVars, fnVars>>

\* Variant: the rendered document is written over the template file.
applyFromFormInPlace ==
    /\ panel = "ConfigForm"
    /\ \E ambient \in Environs, envsubstOK \in BOOLEAN, kubectlOK \in BOOLEAN :
         LET r == applyJobConfig(config, ambient, envsubstOK, kubectlOK)
         IN  /\ environ' = ambient
             /\ kubectlApply' = r.applied
             /\ templateFile' = IF r.applied = <<>> THEN templateFile ELSE r.applied[1]
             /\ IF r.err # ""
                THEN /\ showError("ConfigForm", r.err)
                     /\ UNCHANGED <<config, configName, formItems, modified, dispVars>>
                ELSE /\ onClose
                     /\ UNCHANGED <<returnTo, errorText>>
    /\ editedData' = NoText
    /\ UNCHANGED <<store, perIteration, saved, template, extracted, previous, fnVars>>

\* Form, button "Apply".
applyFromForm ==
    /\ panel = "ConfigForm"
    /\ \E ambient \in Environs, envsubstOK \in BOOLEAN, kubectlOK \in BOOLEAN :
         LET r == applyJobConfig(config, ambient, envsubstOK, kubectlOK)
         IN  /\ environ' = ambient
             /\ kubectlApply' = r.applied
             /\ IF r.err # ""
                THEN /\ showError("ConfigForm", r.err)
                     /\ UNCHANGED <<config, configName, formItems, modified, dispVars>>
                ELSE /\ onClose
                     /\ UNCHANGED <<returnTo, errorText>>
    /\ editedData' = NoText
    /\ UNCHANGED <<store, perIteration, saved, tmplVars, fnVars>>

\* Action dialog, button "Apply".
applyFromDialog ==
    /\ panel = "ActionDialog"
    /\ \E ambient \in Environs, envsubstOK \in BOOLEAN, kubectlOK \in BOOLEAN :
         LET r == applyJobConfig(config, ambient, envsubstOK, kubectlOK)
         IN  /\ environ' = ambient
             /\ kubectlApply' = r.applied
             /\ IF r.err # ""
                THEN /\ showError("ConfigList", r.err)
                     /\ config' = NoConfig
                     /\ configName' = ""
                     /\ UNCHANGED <<formItems, modified, dispVars>>
                ELSE /\ onClose
                     /\ UNCHANGED <<returnTo, errorText>>
    /\ editedData' = NoText
    /\ UNCHANGED <<store, perIteration, saved, tmplVars, fnVars>>

----------------------------------------------------------------------------
(* Command dispatcher: CommandHandler *)

Call(op, name, ok) == [op |-> op, name |-> name, ok |-> ok]

IssuedIn(cs, op) == {c \in Range(cs) : c.op = op}

Issued(op) == IssuedIn(calls, op)

\* client.BatchV1().Jobs(NAMESPACE).Get: fails on a transport error and
\* when the job is gone.
getSucceeds(name, transportOK) ==
    transportOK /\ name \in DOMAIN cluster /\ cluster[name].present

\* Variant: only the presence of the label is tested.
notOwnerExistsOnly(labels) == USER_LABEL \notin DOMAIN labels

\* owner, exists := job.Labels[USER_LABEL]; !exists || owner != h.currentUser
notOwner(labels) ==
    \/ USER_LABEL \notin DOMAIN labels
    \/ labels[USER_LABEL] # CurrentUser

\* Variant: only a Pending row is refused.
notRunningOnlyPending(jobStatus) == jobStatus = "Pending"

\* jobStatus != "Running", on the status cell of the selected row
notRunning(jobStatus) == jobStatus # "Running"

\* table.RemoveRow on the first row whose name cell is name.
RECURSIVE removeRow(_, _)
removeRow(rows, name) ==
    IF rows = <<>> THEN <<>>
    ELSE IF Head(rows).Name = name THEN Tail(rows)
         ELSE <<Head(rows)>> \o removeRow(Tail(rows), name)

showModal(kind, text, name) ==
    /\ view' = kind
    /\ modalText' = text
    /\ modalJob' = name

toMainView ==
    /\ view' = "MainView"
    /\ modalText' = ""
    /\ modalJob' = <<>>

\* The dispatcher at rest, for the specifications that do not run it.
DispIdle ==
    /\ view = "MainView"
    /\ modalText = ""
    /\ modalJob = <<>>
    /\ jobs = <<>>
    /\ table = <<>>
    /\ selection = 0
    /\ currentFilter = FilterAll
    /\ currentSort = SortAgeDesc
    /\ showOnlyUser = FALSE
    /\ elapsed = 0
    /\ cluster = <<>>
    /\ calls = <<>>

DispInit ==
    /\ cluster \in [Watched -> ClusterJobs]
    /\ \E sorted \in sortJobs(jobsOf(cluster, ListOrder), SortAgeDesc) :
          /\ jobs = sorted
          /\ table = sorted
    /\ view = "MainView"
    /\ modalText = ""
    /\ modalJob = <<>>
    /\ selection = 0
    /\ currentFilter = FilterAll
    /\ currentSort = SortAgeDesc
    /\ showOnlyUser = FALSE
    /\ elapsed = 0
    /\ calls = getJobsCalls(TRUE, TRUE)

\* 'r'
handleRefresh ==
    /\ view = "MainView"
    /\ IF elapsed < REFRESH_INTERVAL
       THEN /\ calls' = <<>>
            /\ UNCHANGED <<jobs, table, selection, elapsed>>
       ELSE \E jobListOK, podListOK \in BOOLEAN :
              LET r == getJobs(cluster, jobListOK, podListOK)
              IN  /\ calls' = getJobsCalls(jobListOK, podListOK)
                  /\ IF ~r.err
                     THEN /\ updateTableWithFilter(r.jobs, showOnlyUser,
                                                   currentFilter, currentSort)
                          /\ elapsed' = 0
                     ELSE UNCHANGED <<jobs, table, selection, elapsed>>
    /\ UNCHANGED <<view, modalText, modalJob, currentFilter, currentSort,
                   showOnlyUser, cluster, tmplVars, edVars, fnVars>>

\* 'f' with a step of two.
handleFilterSkipping ==
    /\ view = "MainView"
    /\ calls' = <<>>
    /\ currentFilter' = (currentFilter + 2) % 4
    /\ updateTableWithFilter(jobs, showOnlyUser, currentFilter', currentSort)
    /\ UNCHANGED <<view, modalText, modalJob, currentSort, showOnlyUser,
                   elapsed, cluster, tmplVars, edVars, fnVars>>

\* 'f'
handleFilter ==
    /\ view = "MainView"
    /\ calls' = <<>>
    /\ currentFilter' = (currentFilter + 1) % 4
    /\ updateTableWithFilter(jobs, showOnlyUser, currentFilter', currentSort)
    /\ UNCHANGED <<view, modalText, modalJob, currentSort, showOnlyUser,
                   elapsed, cluster, tmplVars, edVars, fnVars>>

\* 's'
handleSort ==
    /\ view = "MainView"
    /\ calls' = <<>>
    /\ currentSort' = (currentSort + 1) % 8
    /\ updateTableWithFilter(jobs, showOnlyUser, currentFilter, currentSort')
    /\ UNCHANGED <<view, modalText, modalJob, currentFilter, showOnlyUser,
                   elapsed, cluster, tmplVars, edVars, fnVars>>

\* 'h'
handleHide ==
    /\ view = "MainView"
    /\ calls' = <<>>
    /\ showOnlyUser' = ~showOnlyUser
    /\ updateTableWithFilter(jobs, showOnlyUser', currentFilter, currentSort)
    /\ UNCHANGED <<view, modalText, modalJob, currentFilter, currentSort,
                   elapsed, cluster, tmplVars, edVars, fnVars>>

\* 'd': up to the modal it puts on screen
handleDelete ==
    /\ view = "MainView"
    /\ IF selection = 0
       THEN /\ calls' = <<>>
            /\ UNCHANGED <<view, modalText, modalJob>>
       ELSE LET jobName == table[selection].Name
            IN  \E transportOK \in BOOLEAN :
                  LET ok == getSucceeds(jobName, transportOK)
                  IN  /\ calls' = <<Call("Get", jobName, ok)>>
                      /\ IF ~ok
                         THEN showModal("MessageModal", "Error retrieving job", jobName)
                         ELSE IF notOwner(cluster[jobName].labels)
                              THEN showModal("MessageModal", "Cannot delete job", jobName)
                              ELSE showModal("ConfirmDeleteModal", "WARNING! Delete job",
                                             jobName)
    /\ UNCHANGED <<jobs, table, selection, currentFilter, currentSort,
                   showOnlyUser, elapsed, cluster, tmplVars, edVars, fnVars>>

\* The done function of handleDelete's Cancel / Confirm modal, label
\* "Confirm": deleteJob, then the result modal.
deleteConfirm ==
    /\ view = "ConfirmDeleteModal"
    /\ \E transportOK \in BOOLEAN :
         LET ok == transportOK /\ cluster[modalJob].present
         IN  /\ calls' = <<Call("Delete", modalJob, ok)>>
             /\ IF ~ok
                THEN /\ showModal("MessageModal", "Error deleting job", modalJob)
                     /\ UNCHANGED <<table, selection, cluster>>
                ELSE /\ cluster' = [cluster EXCEPT ![modalJob] = NoJob]
                     /\ table' = removeRow(table, modalJob)
                     /\ selection' = Min(selection, Len(table'))
                     /\ showModal("MessageModal", "deleted successfully", modalJob)
    /\ UNCHANGED <<jobs, currentFilter, currentSort, showOnlyUser, elapsed, tmplVars, edVars, fnVars>>

\* Variant: the label test is inverted, so that leaving the modal deletes.
deleteCancelDeletes ==
    /\ view = "ConfirmDeleteModal"
    /\ calls' = <<Call("Delete", modalJob, cluster[modalJob].present)>>
    /\ cluster' = [cluster EXCEPT ![modalJob] = NoJob]
    /\ toMainView
    /\ UNCHANGED <<jobs, table, selection, currentFilter, currentSort,
                   showOnlyUser, elapsed, tmplVars, edVars, fnVars>>

\* The same done function with any other label: "Cancel", or "" when the
\* modal is left with Escape.
deleteCancel ==
    /\ view = "ConfirmDeleteModal"
    /\ calls' = <<>>
    /\ toMainView
    /\ UNCHANGED <<jobs, table, selection, currentFilter, currentSort,
                   showOnlyUser, elapsed, cluster, tmplVars, edVars, fnVars>>

\* The OK button (or Escape) of every one-button modal.
messageModalDone ==
    /\ view = "MessageModal"
    /\ calls' = <<>>
    /\ toMainView
    /\ UNCHANGED <<jobs, table, selection, currentFilter, currentSort,
                   showOnlyUser, elapsed, cluster, tmplVars, edVars, fnVars>>

\* execPod: the pod list call, then kubectl exec on the first running pod.
execPod(jobName, podListOK, runningPod) ==
    IF ~podListOK THEN <<Call("ListJobPods", jobName, FALSE)>>
    ELSE IF ~runningPod THEN <<Call("ListJobPods", jobName, TRUE)>>
    ELSE <<Call("ListJobPods", jobName, TRUE), Call("Exec", jobName, TRUE)>>

\* 'e'
handleEnter ==
    /\ view = "MainView"
    /\ IF selection = 0
       THEN /\ calls' = <<>>
            /\ UNCHANGED <<view, modalText, modalJob>>
       ELSE LET jobName == table[selection].Name
                jobStatus == table[selection].Status
            IN  \E transportOK \in BOOLEAN :
                  LET ok == getSucceeds(jobName, transportOK)
                  IN  IF ~ok
                      THEN /\ calls' = <<Call("Get", jobName, ok)>>
                           /\ showModal("MessageModal", "Error retrieving job", jobName)
                      ELSE IF notOwner(cluster[jobName].labels)
                      THEN /\ calls' = <<Call("Get", jobName, ok)>>
                           /\ showModal("MessageModal", "Cannot exec: not your job", jobName)
                      ELSE IF notRunning(jobStatus)
                      THEN /\ calls' = <<Call("Get", jobName, ok)>>
                           /\ showModal("MessageModal", "Cannot exec: not running", jobName)
                      ELSE \E podListOK \in BOOLEAN,
                              runningPod \in {FALSE, cluster[jobName].active > 0} :
                             LET x == execPod(jobName, podListOK, runningPod)
                             IN  /\ calls' = <<Call("Get", jobName, ok)>> \o x
                                 /\ IF x[Len(x)].op = "Exec"
                                    THEN showModal("ShellSession", "", jobName)
                                    ELSE toMainView
    /\ UNCHANGED <<jobs, table, selection, currentFilter, currentSort,
                   showOnlyUser, elapsed, cluster, tmplVars, edVars, fnVars>>

\* kubectl exec returns; the TUI is started again on the main layout.
shellExit ==
    /\ view = "ShellSession"
    /\ calls' = <<>>
    /\ toMainView
    /\ UNCHANGED <<jobs, table, selection, currentFilter, currentSort,
                   showOnlyUser, elapsed, cluster, tmplVars, edVars, fnVars>>

\* 'n': NewCreateJobForm, then Show.  The form takes over the screen;
\* what happens inside it is followed by the specification of the form
\* itself.  When a directory, the download or the base template fails,
\* NewCreateJobForm leaves its error modal on screen and returns nil; when
\* the list of configurations cannot be read, it returns a form without a
\* current panel, which Show makes the root.
handleNewConfig ==
    /\ view = "MainView"
    /\ calls' = <<>>
    /\ \E outcome \in {"shown", "not created", "no panel"} :
         IF outcome = "shown"
         THEN /\ view' = "ConfigEditor"
              /\ UNCHANGED <<modalText, modalJob>>
         ELSE IF outcome = "not created"
              THEN showModal("FormErrorModal", "Failed to load base config", <<>>)
              ELSE showModal("NoRoot", "", <<>>)
    /\ UNCHANGED <<jobs, table, selection, currentFilter,
                   currentSort, showOnlyUser, elapsed, cluster, tmplVars, edVars, fnVars>>

\* The OK button of the modal NewCreateJobForm showed with showError(app,
\* nil, ...): the root it restores is nil.
formErrorDone ==
    /\ view = "FormErrorModal"
    /\ calls' = <<>>
    /\ showModal("NoRoot", "", <<>>)
    /\ UNCHANGED <<jobs, table, selection, currentFilter, currentSort,
                   showOnlyUser, elapsed, cluster, tmplVars, edVars, fnVars>>

\* 'c': getJobYAML and a temporary file, then vim -R on it.
handleConfig ==
    /\ view = "MainView"
    /\ IF selection = 0
       THEN /\ calls' = <<>>
            /\ UNCHANGED <<view, modalText, modalJob>>
       ELSE LET jobName == table[selection].Name
            IN  \E transportOK \in BOOLEAN, tmpFileOK \in BOOLEAN :
                  LET ok == getSucceeds(jobName, transportOK)
                  IN  /\ calls' = <<Call("Get", jobName, ok)>>
                      /\ IF ~ok
                         THEN showModal("MessageModal", "Error getting job config", jobName)
                         ELSE IF ~tmpFileOK
                              THEN showModal("MessageModal", "Error creating temporary file",
                                             jobName)
                              ELSE showModal("ConfigViewer", "", jobName)
    /\ UNCHANGED <<jobs, table, selection, currentFilter, currentSort,
                   showOnlyUser, elapsed, cluster, tmplVars, edVars, fnVars>>

\* vim -R returns; the TUI is started again on the main layout.
viewerExit ==
    /\ view = "ConfigViewer"
    /\ calls' = <<>>
    /\ toMainView
    /\ UNCHANGED <<jobs, table, selection, currentFilter, currentSort,
                   showOnlyUser, elapsed, cluster, tmplVars, edVars, fnVars>>

\* The form is left: the callback handed to NewCreateJobForm runs.
configClose ==
    /\ view = "ConfigEditor"
    /\ closeCallback
    /\ UNCHANGED <<currentFilter, currentSort, showOnlyUser, elapsed, cluster,
                   tmplVars, edVars, fnVars>>

\* Arrow keys: the table widget moves the selected row.
moveSelection ==
    /\ view = "MainView"
    /\ calls' = <<>>
    /\ \E row \in 0..Len(table) :
         /\ row # selection
         /\ selection' = row
    /\ UNCHANGED <<view, modalText, modalJob, jobs, table, currentFilter,
                   currentSort, showOnlyUser, elapsed, cluster, tmplVars, edVars, fnVars>>

\* One second passes; beyond REFRESH_INTERVAL the amount no longer matters.
tick ==
    /\ elapsed < REFRESH_INTERVAL
    /\ calls' = <<>>
    /\ elapsed' = elapsed + 1
    /\ UNCHANGED <<view, modalText, modalJob, jobs, table, selection,
                   currentFilter, currentSort, showOnlyUser, cluster, tmplVars, edVars, fnVars>>

\* What one change made by somebody else (another user, the job
\* controller) can turn a job into: created, deleted, relabelled, or one
\* pod count moved by one.
changesOf(cj) ==
    IF ~cj.present
    THEN {c \in ClusterJobs : c.present /\ c.active = 0 /\ c.succeeded = 0 /\ c.failed = 0}
    ELSE {NoJob}
         \cup {[cj EXCEPT !.labels = l] : l \in LabelSets \ {cj.labels}}
         \cup {c \in ClusterJobs :
                 /\ c.present
                 /\ c.labels = cj.labels
                 /\ \E d \in {-1, 1} :
                      \/ c = [cj EXCEPT !.active = @ + d]
                      \/ c = [cj EXCEPT !.succeeded = @ + d]
                      \/ c = [cj EXCEPT !.failed = @ + d]}

clusterChange ==
    /\ calls' = <<>>
    /\ \E name \in DOMAIN cluster :
         \E cj \in changesOf(cluster[name]) :
            cluster' = [cluster EXCEPT ![name] = cj]
    /\ UNCHANGED <<view, modalText, modalJob, jobs, table, selection,
                   currentFilter, currentSort, showOnlyUser, elapsed, tmplVars, edVars, fnVars>>

Init ==
    /\ DispInit
    /\ TmplIdle
    /\ EdIdle
    /\ fnIn = <<>>
    /\ fnOut = <<>>

Next ==
    \/ handleRefresh
    \/ handleFilter
    \/ handleSort
    \/ handleHide
    \/ handleDelete
    \/ deleteConfirm
    \/ deleteCancel
    \/ messageModalDone
    \/ handleEnter
    \/ shellExit
    \/ handleConfig
    \/ viewerExit
    \/ handleNewConfig
    \/ formErrorDone
    \/ configClose
    \/ moveSelection
    \/ tick
    \/ clusterChange

Spec == Init /\ [][Next]_vars

----------------------------------------------------------------------------
(* From a delete to the next refresh: C36.  Nothing but the dashboard's
   own delete takes a job out of the namespace here. *)

DeleteNext ==
    \/ handleDelete
    \/ deleteConfirm
    \/ deleteCancel
    \/ messageModalDone
    \/ handleFilter
    \/ handleSort
    \/ handleHide
    \/ moveSelection

SpecDelete == Init /\ [][DeleteNext]_vars

\* C36: once the delete of a job has succeeded, no table rendered before
\* the next refresh has a row for it.
C36_DeletedRowStaysAway ==
    \A name \in Watched :
        ~cluster[name].present => \A i \in 1..Len(table) : table[i].Name # name

----------------------------------------------------------------------------
(* Ownership and confirmation: C1, C2, C3 *)

\* The ownership label of the selected row's job as the cluster holds it.
selectedName == table[selection].Name

selectedExists ==
    /\ selection # 0
    /\ selectedName \in DOMAIN cluster
    /\ cluster[selectedName].present

selectedIsForeign ==
    /\ selectedExists
    /\ \/ DOMAIN cluster[selectedName].labels = {}
       \/ cluster[selectedName].labels["eidf/user"] # CurrentUser

\* C1: when delete is requested in MainView on a selected workload whose
\* eidf/user label is absent or differs from the current identity, the
\* request issues no delete call and ends in a one-button message modal;
\* when the job could be retrieved the message is the ownership rejection.
C1_ForeignDeleteRejected ==
    [][(handleDelete /\ selectedIsForeign)
          => /\ IssuedIn(calls', "Delete") = {}
             /\ view' = "MessageModal"
             /\ modalJob' = selectedName
             /\ (\A c \in IssuedIn(calls', "Get") : c.ok)
                   => modalText' = "Cannot delete job"]_vars

C1_Witness ==
    /\ view = "MessageModal"
    /\ modalText = "Cannot delete job"
    /\ Issued("Get") # {}
    /\ cluster[modalJob].present
    /\ DOMAIN cluster[modalJob].labels # {}
    /\ cluster[modalJob].labels["eidf/user"] = OtherUser

\* C2: a delete call for workload W is issued only by the Confirm button of
\* a confirmation modal shown for W; leaving that modal any other way goes
\* back to MainView without a delete call.
C2_DeleteOnlyAfterConfirm ==
    [][/\ (IssuedIn(calls', "Delete") # {})
            => /\ view = "ConfirmDeleteModal"
               /\ deleteConfirm
               /\ \A c \in IssuedIn(calls', "Delete") : c.name = modalJob
       /\ deleteCancel
            => /\ view' = "MainView"
               /\ IssuedIn(calls', "Delete") = {}
               /\ cluster' = cluster
       /\ (view = "ConfirmDeleteModal" /\ view' = "MainView")
            => IssuedIn(calls', "Delete") = {}]_vars

C2_Witness ==
    /\ view = "MessageModal"
    /\ modalText = "deleted successfully"
    /\ \E c \in Issued("Delete") : c.name = modalJob /\ c.ok
    /\ ~cluster[modalJob].present

\* C3: 'e' launches the remote shell only when the selected row's status
\* is Running and the job's eidf/user label is the current identity; when
\* the row is not Running or the job is foreign, the request ends in a
\* message modal and neither the pod query nor the subprocess is started.
C3_ShellOnlyRunningAndOwned ==
    [][(handleEnter /\ selectedExists)
          => /\ (IssuedIn(calls', "Exec") # {} \/ view' = "ShellSession")
                  => /\ table[selection].Status = "Running"
                     /\ ~selectedIsForeign
             /\ (table[selection].Status # "Running" \/ selectedIsForeign)
                  => /\ view' = "MessageModal"
                     /\ modalJob' = selectedName
                     /\ IssuedIn(calls', "Exec") = {}
                     /\ IssuedIn(calls', "ListJobPods") = {}]_vars

C3_Witness ==
    /\ view = "ShellSession"
    /\ \E c \in Issued("Exec") : c.name = modalJob
    /\ table[selection].Status = "Running"
    /\ DOMAIN cluster[modalJob].labels # {}
    /\ cluster[modalJob].labels["eidf/user"] = CurrentUser

----------------------------------------------------------------------------
(* Refresh rate limit: C13 *)

\* The step just taken listed the workloads and the pods without an
\* error: a successful snapshot refresh, zero seconds ago.
justRefreshed == calls = getJobsCalls(TRUE, TRUE)

\* C13: a refresh request that arrives before the minimum interval has
\* passed since the last successful refresh is ignored, whichever action
\* made that refresh; stated for a request that arrives before any time
\* has passed at all.
C13_RefreshTooSoonIgnored ==
    [][(handleRefresh /\ justRefreshed)
          => /\ calls' = <<>>
             /\ UNCHANGED <<jobs, table, currentFilter, currentSort, showOnlyUser>>]_vars

----------------------------------------------------------------------------
(* Views, failed calls and the cycles of the FilterState: C22, C24, C30 *)

dismissal ==
    \/ deleteCancel
    \/ messageModalDone
    \/ shellExit
    \/ viewerExit
    \/ configClose
    \/ formErrorDone

\* C22: the dispatcher starts on the main view, and every step that
\* completes or dismisses a modal or a session (the delete confirmation
\* cancelled, a message or error modal, the shell, the read-only viewer,
\* the configuration editor, the error modal of an editor that could not
\* be opened) puts the main view back as root; confirming a delete leads
\* to its result modal.
C22_DismissalReturnsToMainView ==
    /\ view = "MainView"
    /\ [][/\ dismissal => view' = "MainView"
          /\ deleteConfirm => view' = "MessageModal"]_vars

failedCall(cs) ==
    \E c \in Range(cs) : ~c.ok /\ c.op \in {"ListJobs", "ListPods", "Get", "Delete"}

callingAction == handleRefresh \/ handleDelete \/ deleteConfirm \/ handleEnter \/ handleConfig

\* C24: when the list, get or delete call of a dispatcher action fails,
\* the action stops there, a message modal is on screen, and snapshot and
\* FilterState are what they were.
C24_FailedCallShowsMessage ==
    [][(callingAction /\ failedCall(calls'))
          => /\ view' = "MessageModal"
             /\ calls'[Len(calls')].ok = FALSE
             /\ UNCHANGED <<jobs, currentFilter, currentSort, showOnlyUser>>]_vars

nextFilter(f) ==
    IF f = FilterAll THEN FilterRunning
    ELSE IF f = FilterRunning THEN FilterFailed
    ELSE IF f = FilterFailed THEN FilterPending
    ELSE FilterAll

sortCycle == <<SortAgeDesc, SortAgeAsc, SortGPUCountAsc, SortGPUCountDesc,
               SortDurationDesc, SortDurationAsc, SortGPUTypeDesc, SortGPUTypeAsc>>

nextSort(m) ==
    LET i == CHOOSE k \in 1..8 : sortCycle[k] = m
    IN  sortCycle[(i % 8) + 1]

\* C30: the status filter always is one of the four values and the sort
\* mode one of the eight; the filter key moves the filter one place along
\* All, Running, Failed, Pending, All, the sort key moves the sort mode one
\* place along its cycle of eight, and no other step changes either.
C30_FilterStateCycles ==
    /\ [](/\ currentFilter \in {FilterAll, FilterRunning, FilterFailed, FilterPending}
          /\ currentSort \in Range(sortCycle)
          /\ Cardinality(Range(sortCycle)) = 8)
    /\ [][/\ handleFilter => currentFilter' = nextFilter(currentFilter)
          /\ handleSort => currentSort' = nextSort(currentSort)
          /\ currentFilter' # currentFilter => handleFilter
          /\ currentSort' # currentSort => handleSort]_vars

\* Three filter keys and seven sort keys from the start: the next key of
\* either kind closes its cycle.
C30_Witness ==
    /\ currentFilter = FilterPending
    /\ currentSort = SortGPUTypeAsc
    /\ view = "MainView"

----------------------------------------------------------------------------
(* Extraction from every bounded template document: C5, C6, C7 *)

ExtractInit ==
    /\ DispIdle
    /\ template \in Documents(MaxDepth, MaxLeaves)
    /\ templateFile = NoFile
    /\ extracted = NotExtracted
    /\ previous = NotExtracted
    /\ EdIdle
    /\ fnIn = <<>>
    /\ fnOut = <<>>

\* loadBaseConfig: one more extraction from the unmodified base template.
extract ==
    /\ \E r \in extractEnvVars(template) :
         /\ extracted' = r
         /\ previous' = extracted
    /\ UNCHANGED <<template, templateFile, dispVars, edVars, fnVars>>

ExtractNext == extract

SpecExtract == ExtractInit /\ [][ExtractNext]_vars

\* What the document declares, read off the document itself: every match
\* of the placeholder pattern in a scalar, left to right ...
RECURSIVE placeholdersIn(_, _)
placeholdersIn(s, from) ==
    LET m == findFrom(s, from)
    IN  IF m.ok THEN <<[name |-> m.name, default |-> m.default]>>
                     \o placeholdersIn(s, m.end + 1)
        ELSE <<>>

\* ... over the string scalars at any depth, in document order.
RECURSIVE placeholdersOf(_), placeholdersOfItems(_)
placeholdersOfItems(items) ==
    IF items = <<>> THEN <<>>
    ELSE placeholdersOf(Head(items)) \o placeholdersOfItems(Tail(items))

placeholdersOf(node) ==
    CASE node.kind = "str" -> placeholdersIn(node.val, 1)
      [] node.kind \in {"seq", "map"} -> placeholdersOfItems(node.items)
      [] OTHER -> <<>>

declaredNames(doc) == {ph.name : ph \in Range(placeholdersOf(doc))}

firstDefault(doc, name) ==
    LET phs == placeholdersOf(doc)
        at == {i \in 1..Len(phs) : phs[i].name = name}
    IN  phs[CHOOSE i \in at : \A k \in at : i <= k].default

\* C5: the keys of an extracted ParameterSet are exactly the NAMEs of all
\* placeholders in the document's string scalars, at any depth, several
\* placeholders in one scalar included.
C5_KeysAreAllPlaceholderNames ==
    extracted.state = "ok" =>
        DOMAIN extracted.envVars = declaredNames(template)

\* C6: every extracted NAME carries the DEFAULT of its first occurrence in
\* the document, whichever traversal the extractor performed.
C6_FirstOccurrenceWins ==
    extracted.state = "ok" =>
        \A name \in DOMAIN extracted.envVars \cap declaredNames(template) :
            extracted.envVars[name] = firstDefault(template, name)

\* C7: two extractions from the same unmodified document return
\* ParameterSets with identical keys and identical values.
C7_ExtractionIdempotent ==
    (extracted.state = "ok" /\ previous.state = "ok") =>
        extracted.envVars = previous.envVars

----------------------------------------------------------------------------
(* The configuration list and form over a bounded set of templates:
   C8, C9, C10 *)

\* Base templates of the editor: a flat mapping of up to MaxLeaves string
\* scalars, each one placeholder.
EditorTokens == {Placeholder(<<"A">>, <<"x">>), Placeholder(<<"B">>, <<"x">>)}

EditorTemplates ==
    UNION {{MapNode([i \in 1..n |-> Str(t[i])]) : t \in [1..n -> EditorTokens]} :
             n \in 1..MaxLeaves}

\* NewCreateJobForm has succeeded: directories and base template are in
\* place and the list of stored configurations is on screen.
EditorInit ==
    /\ view = "ConfigEditor"
    /\ modalText = ""
    /\ modalJob = <<>>
    /\ jobs = <<>>
    /\ table = <<>>
    /\ selection = 0
    /\ currentFilter = FilterAll
    /\ currentSort = SortAgeDesc
    /\ showOnlyUser = FALSE
    /\ elapsed = 0
    /\ cluster = <<>>
    /\ calls = <<>>
    /\ template \in EditorTemplates
    /\ templateFile = processedContent(template)
    /\ extracted = NotExtracted
    /\ previous = NotExtracted
    /\ panel = "ConfigList"
    /\ returnTo = ""
    /\ errorText = ""
    /\ store = <<>>
    /\ config = NoConfig
    /\ configName = ""
    /\ formItems = <<>>
    /\ modified = FALSE
    /\ perIteration \in BOOLEAN
    /\ editedData = NoText
    /\ saved = <<>>
    /\ environ = NoEnviron
    /\ kubectlApply = <<>>
    /\ fnIn = <<>>
    /\ fnOut = <<>>

EditorNext ==
    \/ createNew
    \/ selectConfig
    \/ actionChange
    \/ actionBack
    \/ fieldEdit
    \/ editInVim
    \/ saveButton
    \/ saveDialogSave
    \/ saveDialogCancel
    \/ backButton
    \/ unsavedModalDone
    \/ errorDone
    \/ applyFromForm
    \/ applyFromDialog
    \/ exitList

SpecEditor == EditorInit /\ [][EditorNext]_vars

\* C8: in every state of the configuration editor, every key of the
\* in-memory ParameterSet is a NAME the base template declares.
C8_KeysDeclaredByTemplate ==
    panel \in {"ConfigForm", "SaveDialog", "UnsavedModal", "ErrorModal", "ActionDialog"} =>
        DOMAIN config.EnvVars \subseteq declaredNames(template)

\* A document a ParameterSet can be read from: a mapping whose values are
\* all scalars.
parsesAsParameterSet(text) ==
    /\ text.kind = "map"
    /\ \A k \in DOMAIN text.entries : text.entries[k].kind = "str"

\* C9: when the document an editing session hands back cannot be parsed
\* into a ParameterSet, the in-memory ParameterSet is what it was before
\* the session and the user is shown an error.
C9_ParseFailureKeepsParameterSet ==
    [][(editInVim /\ editedData' # NoText /\ ~parsesAsParameterSet(editedData'))
          => /\ config' = config
             /\ panel' = "ErrorModal"
             /\ errorText' = "Invalid YAML format"]_vars

C9_Witness ==
    /\ panel = "ErrorModal"
    /\ errorText = "Invalid YAML format"
    /\ editedData.kind = "map"
    /\ \E k \in DOMAIN editedData.entries \cap DOMAIN config.EnvVars :
         editedData.entries[k].kind = "map"
    /\ \E k \in DOMAIN editedData.entries \cap DOMAIN config.EnvVars :
         editedData.entries[k] = YamlScalar(config.EnvVars[k])

\* C10: loading a name returns the ParameterSet last saved under it, with
\* the same keys and the same values.
C10_SaveLoadRoundTrip ==
    [][(selectConfig /\ errorText' # "failed to read config file")
          => /\ panel' = "ActionDialog"
             /\ config'.EnvVars = saved[configName']]_vars

\* A step that runs applyJobConfig, from the form or from the action dialog.
applyStep == applyFromForm \/ applyFromDialog

\* C11: when the template has a marker for a NAME the ParameterSet holds
\* no value for, apply fails with an error and nothing is handed to the
\* cluster.
C11_MissingValueAbortsApply ==
    [][(applyStep /\ ~(declaredNames(template) \subseteq DOMAIN config.EnvVars))
          => /\ kubectlApply' = <<>>
             /\ panel' = "ErrorModal"]_vars

\* C12: the document handed to the cluster is the one the same template
\* and ParameterSet render to in every other process environment.
C12_RenderIgnoresAmbient ==
    [][applyStep
          => \A doc \in Range(kubectlApply') : \A ambient \in Environs :
                doc = envsubst(processedContent(template),
                               cmdEnv(ambient, config.EnvVars))]_vars

----------------------------------------------------------------------------
(* The configuration list with several stored names: C23, C28, C29.
   The form is followed with the values it opens with. *)

\* Names typed into the save dialog.
StoreNames == {"job", "run", BASE_APPLY}

StoreInit ==
    /\ view = "ConfigEditor"
    /\ modalText = ""
    /\ modalJob = <<>>
    /\ jobs = <<>>
    /\ table = <<>>
    /\ selection = 0
    /\ currentFilter = FilterAll
    /\ currentSort = SortAgeDesc
    /\ showOnlyUser = FALSE
    /\ elapsed = 0
    /\ cluster = <<>>
    /\ calls = <<>>
    /\ template = MapNode(<<Str(Placeholder(<<"A">>, <<"x">>))>>)
    /\ templateFile = processedContent(template)
    /\ extracted = NotExtracted
    /\ previous = NotExtracted
    /\ panel = "ConfigList"
    /\ returnTo = ""
    /\ errorText = ""
    /\ store = <<>>
    /\ config = NoConfig
    /\ configName = ""
    /\ formItems = <<>>
    /\ modified = FALSE
    /\ perIteration = TRUE
    /\ editedData = NoText
    /\ saved = <<>>
    /\ environ = NoEnviron
    /\ kubectlApply = <<>>
    /\ fnIn = <<>>
    /\ fnOut = <<>>

saveDialogSaveAs == saveDialogSaveOf(StoreNames)

StoreNext ==
    \/ createNew
    \/ selectConfig
    \/ actionChange
    \/ actionBack
    \/ saveButton
    \/ saveDialogSaveAs
    \/ saveDialogCancel
    \/ backButton
    \/ errorDone
    \/ applyFromForm
    \/ applyFromDialog
    \/ exitList
    \/ deleteKey
    \/ deleteModalDelete
    \/ deleteModalCancel

SpecStore == StoreInit /\ [][StoreNext]_vars

sessionEnds == exitList \/ (applyStep /\ panel' = "Closed")

listCalls(cs) == Len(SelectSeq(cs, LAMBDA c : c.op = "ListJobs"))

\* C23: a step that ends the session of the list and form (Exit, or an
\* Apply that succeeded, from the form or from the action dialog) puts the
\* main view back and lists the workloads exactly once; no other step of
\* the session lists them or leaves the editor.
C23_ExitRefreshesOnce ==
    [][/\ sessionEnds => (view' = "MainView" /\ listCalls(calls') = 1)
       /\ ~sessionEnds => (view' = "ConfigEditor" /\ calls' = <<>>)]_vars

\* A successful Apply has left the session and the snapshot was taken
\* again.
C23_Witness ==
    /\ panel = "Closed"
    /\ view = "MainView"
    /\ kubectlApply # <<>>
    /\ calls = getJobsCalls(TRUE, TRUE)

C29_ListShowsSavedNames ==
    panel = "ConfigList" => loadConfigList(store) = DOMAIN saved

----------------------------------------------------------------------------
(* The two template files across sessions of the form: C31, C38 *)

\* config/base_apply.yaml as http.Get returns it, cut down to two
\* parameters.
RemoteBase ==
    MapNode(<<Str(Placeholder(<<"A">>, <<"x">>)),
              Str(Placeholder(<<"B">>, <<"x">>))>>)

\* Templates a user copies to ~/.kstool/base_apply.yaml.
UserTemplates ==
    {MapNode(<<Str(Placeholder(<<"Z">>, <<"y">>))>>),
     MapNode(<<Str(Placeholder(<<"A">>, <<"y">>)), Str(<<"t">>)>>)}

\* downloadBaseConfig: nothing when the base template exists; else the
\* download, written as the base template and, normalized, as the
\* template file.
downloadBaseConfig(base, tmpl, httpOK) ==
    IF base # NoFile THEN [err |-> FALSE, base |-> base, tmpl |-> tmpl]
    ELSE IF ~httpOK THEN [err |-> TRUE, base |-> base, tmpl |-> tmpl]
    ELSE [err |-> FALSE, base |-> RemoteBase,
          tmpl |-> processedContent(RemoteBase)]

\* 'n' with the files followed: NewCreateJobForm runs downloadBaseConfig
\* and loadBaseConfig, then shows the list.
NewCreateJobForm ==
    /\ view = "MainView"
    /\ panel = "Closed"
    /\ calls' = <<>>
    /\ \E httpOK \in BOOLEAN :
         LET d == downloadBaseConfig(template, templateFile, httpOK)
         IN  /\ template' = d.base
             /\ templateFile' = d.tmpl
             /\ IF d.err
                THEN /\ showModal("FormErrorModal", "Failed to download base config", <<>>)
                     /\ UNCHANGED <<extracted, previous, panel>>
                ELSE \E r \in extractEnvVars(d.base) :
                       /\ extracted' = r
                       /\ previous' = extracted
                       /\ IF r.state = "error"
                          THEN /\ showModal("FormErrorModal", "Failed to load base config", <<>>)
                               /\ UNCHANGED panel
                          ELSE /\ view' = "ConfigEditor"
                               /\ panel' = "ConfigList"
                               /\ UNCHANGED <<modalText, modalJob>>
    /\ editedData' = NoText
    /\ noApply
    /\ UNCHANGED <<jobs, table, selection, currentFilter, currentSort,
                   showOnlyUser, elapsed, cluster, returnTo, errorText, store,
                   config, configName, formItems, modified, perIteration,
                   saved, fnVars>>

\* Between two sessions of the form the user installs a template of their
\* own: cp your-config.yaml ~/.kstool/base_apply.yaml.
userInstalls ==
    /\ view = "MainView"
    /\ panel = "Closed"
    /\ \E doc \in UserTemplates :
         /\ doc # template
         /\ template' = doc
    /\ calls' = <<>>
    /\ editedData' = NoText
    /\ noApply
    /\ UNCHANGED <<view, modalText, modalJob, jobs, table, selection,
                   currentFilter, currentSort, showOnlyUser, elapsed, cluster,
                   templateFile, extracted, previous, panel, returnTo,
                   errorText, store, config, configName, formItems, modified,
                   perIteration, saved, fnVars>>

TemplateInit ==
    /\ DispIdle
    /\ panel = "Closed"
    /\ returnTo = ""
    /\ errorText = ""
    /\ store = <<>>
    /\ config = NoConfig
    /\ configName = ""
    /\ formItems = <<>>
    /\ modified = FALSE
    /\ perIteration \in BOOLEAN
    /\ editedData = NoText
    /\ saved = <<>>
    /\ environ = NoEnviron
    /\ kubectlApply = <<>>
    /\ template \in {NoFile} \cup UserTemplates
    /\ templateFile = NoFile
    /\ extracted = NotExtracted
    /\ previous = NotExtracted
    /\ fnIn = <<>>
    /\ fnOut = <<>>

TemplateNext ==
    \/ NewCreateJobForm
    \/ formErrorDone
    \/ userInstalls
    \/ createNew
    \/ fieldEdit
    \/ saveButton
    \/ saveDialogSave
    \/ saveDialogCancel
    \/ backButton
    \/ unsavedModalDone
    \/ errorDone
    \/ applyFromForm
    \/ exitList

SpecTemplate == TemplateInit /\ [][TemplateNext]_vars

\* C31: a step that renders and applies leaves the base template and the
\* template file as they were, so that extraction can return after it
\* exactly what it could return before, whatever the values rendered.
C31_RenderLeavesTemplates ==
    [][applyStep => /\ template' = template
                    /\ templateFile' = templateFile
                    /\ extractEnvVars(template') = extractEnvVars(template)]_vars

\* A render with an edited value has been handed to kubectl; both files
\* are still the downloaded ones.
C31_Witness ==
    /\ kubectlApply = <<MapNode(<<Str(<<"y">>), Str(<<"x">>)>>)>>
    /\ template = RemoteBase
    /\ templateFile = processedContent(RemoteBase)
    /\ extracted.envVars = (<<"A">> :> <<"x">>) @@ (<<"B">> :> <<"x">>)

\* The step is the user typing text into the field of item i, and the
\* ParameterSet afterwards has text under that item's name and every other
\* entry as before.
editsOnly(i, text) ==
    fieldEditOf(i, text)
        => config'.EnvVars = (formItems[i] :> text) @@ config.EnvVars

C39_BackAsksWhileUnsaved ==
    [][(backButton /\ config.EnvVars # extracted.envVars)
          => panel' = "UnsavedModal"]_vars

\* C38: whenever apply is invoked, the template file exists and is the
\* normalized form of the base template the form extracted its defaults
\* from.
C38_TemplateDerivedFromBase ==
    [][applyStep => /\ templateFile # NoFile
                    /\ templateFile = processedContent(template)]_vars

----------------------------------------------------------------------------
(* getJobs on every bounded namespace: C14 *)

SnapshotInit ==
    /\ cluster \in [JobNames -> ClusterJobs]
    /\ view = "MainView"
    /\ modalText = ""
    /\ modalJob = <<>>
    /\ jobs = <<>>
    /\ table = <<>>
    /\ selection = 0
    /\ currentFilter = FilterAll
    /\ currentSort = SortAgeDesc
    /\ showOnlyUser = FALSE
    /\ elapsed = 0
    /\ calls = <<>>
    /\ TmplIdle
    /\ EdIdle
    /\ fnIn = <<>>
    /\ fnOut = [err |-> FALSE, jobs |-> <<>>]

applyGetJobs ==
    /\ \E jobListOK, podListOK \in BOOLEAN :
         /\ fnIn' = <<jobListOK, podListOK>>
         /\ fnOut' = getJobs(cluster, jobListOK, podListOK)
         /\ calls' = getJobsCalls(jobListOK, podListOK)
    /\ UNCHANGED <<view, modalText, modalJob, jobs, table, selection,
                   currentFilter, currentSort, showOnlyUser, elapsed, cluster,
                   tmplVars, edVars>>

\* Longest pod list the builder is given.
MaxPodList == 2

\* The pods a list call can return: owned by a Job or a ReplicaSet called
\* like one of the jobs, as controller or not.
ListedPods == [controller : BOOLEAN, kind : {"Job", "ReplicaSet"}, name : JobNames]

PodLists == UNION {[1..n -> ListedPods] : n \in 0..MaxPodList}

\* getJobs with both list calls answered, the pod list among the inputs.
applyGetJobsPods ==
    /\ fnIn = <<>>
    /\ \E podList \in PodLists :
         LET r == getJobs(cluster, TRUE, TRUE)
         IN  /\ fnIn' = <<TRUE, TRUE, podList>>
             /\ fnOut' = [err |-> r.err, jobs |-> r.jobs,
                          pods |-> podsColumn(r.jobs, podList)]
             /\ calls' = getJobsCalls(TRUE, TRUE)
    /\ UNCHANGED <<view, modalText, modalJob, jobs, table, selection,
                   currentFilter, currentSort, showOnlyUser, elapsed, cluster,
                   tmplVars, edVars>>

SnapshotNext == applyGetJobs \/ applyGetJobsPods

SpecSnapshot == SnapshotInit /\ [][SnapshotNext]_vars

\* C14: when the workload list call or the pod list call fails, the
\* builder returns an error and no record; when both succeed it returns
\* no error and one record for every job of the namespace.
C14_SnapshotAllOrNothing ==
    fnIn # <<>> =>
        /\ (\E c \in Range(calls) : ~c.ok) => (fnOut.err /\ fnOut.jobs = <<>>)
        /\ (\A c \in Range(calls) : c.ok) =>
              /\ ~fnOut.err
              /\ {j.Name : j \in Range(fnOut.jobs)} = {n \in JobNames : cluster[n].present}
              /\ Len(fnOut.jobs) = Cardinality({n \in JobNames : cluster[n].present})

C14_Witness ==
    /\ fnIn = <<TRUE, FALSE>>
    /\ fnOut.err
    /\ fnOut.jobs = <<>>
    /\ \A n \in JobNames : cluster[n].present

\* C35: a successful snapshot has one record for every job the list call
\* returned, in the order of the list, and the pod count of each record is
\* the number of listed pods whose controller is of kind Job and bears the
\* job's name; the other pods are counted for no record.
C35_OneRecordPerJobWithItsPods ==
    Len(fnIn) = 3 =>
        LET podList == fnIn[3]
            Listed(n) == cluster[n].present
            listed == SelectSeq(ListOrder, Listed)
            owned(n) == {k \in 1..Len(podList) :
                           /\ podList[k].controller
                           /\ podList[k].kind = "Job"
                           /\ podList[k].name = n}
        IN  /\ ~fnOut.err
            /\ [i \in 1..Len(fnOut.jobs) |-> fnOut.jobs[i].Name] = listed
            /\ Len(fnOut.pods) = Len(listed)
            /\ \A i \in 1..Len(listed) :
                 fnOut.pods[i] = Itoa(Cardinality(owned(listed[i])))
                                 \o <<" ", "p", "o", "d", "s">>

\* Two jobs, one pod of the first job and one pod a ReplicaSet of the
\* same name controls.
C35_Witness ==
    /\ Len(fnIn) = 3
    /\ Len(fnOut.jobs) = 2
    /\ fnIn[3] = <<[controller |-> TRUE, kind |-> "Job", name |-> ListOrder[1]],
                   [controller |-> TRUE, kind |-> "ReplicaSet", name |-> ListOrder[1]]>>
    /\ fnOut.pods = <<<<"1", " ", "p", "o", "d", "s">>, <<"0", " ", "p", "o", "d", "s">>>>

----------------------------------------------------------------------------
(* The stages of the projection on every bounded snapshot: C15 - C19.
   Each behaviour applies one stage once to the snapshot it starts from. *)

\* A third job, of the current user, younger than the other user's job
\* and equal to it in duration, GPU count and GPU type.
ListedNames == JobNames \cup {<<"a", "l", "2">>}

Orders ==
    {o \in UNION {[1..n -> ListedNames] : n \in 0..Cardinality(ListedNames)} :
        \A i, j \in DOMAIN o : i # j => o[i] # o[j]}

JobRecords(name) == {toJob(name, cj) : cj \in ClusterJobs \ {NoJob}}

RECURSIVE SnapshotsOver(_)
SnapshotsOver(order) ==
    IF order = <<>> THEN {<<>>}
    ELSE {<<r>> \o rest : r \in JobRecords(Head(order)), rest \in SnapshotsOver(Tail(order))}

\* Every list of records of distinct jobs, in every order.
Snapshots == UNION {SnapshotsOver(o) : o \in Orders}

\* Values of h.currentUser: the two users, an empty USER, and a text that
\* occurs inside names without starting any.
Identities == {CurrentUser, OtherUser, <<>>, <<"l">>}

ProjectInit ==
    /\ jobs \in Snapshots
    /\ view = "MainView"
    /\ modalText = ""
    /\ modalJob = <<>>
    /\ table = <<>>
    /\ selection = 0
    /\ currentFilter = FilterAll
    /\ currentSort = SortAgeDesc
    /\ showOnlyUser = FALSE
    /\ elapsed = 0
    /\ cluster = <<>>
    /\ calls = <<>>
    /\ TmplIdle
    /\ EdIdle
    /\ fnIn = [op |-> "none", arg |-> <<>>]
    /\ fnOut = [out |-> <<>>, again |-> <<>>]

applyOwnJobs ==
    /\ fnIn.op = "none"
    /\ \E user \in Identities :
         /\ fnIn' = [op |-> "ownJobs", arg |-> user]
         /\ fnOut' = [out |-> ownJobs(jobs, user), again |-> <<>>]
    /\ UNCHANGED <<dispVars, tmplVars, edVars>>

applyStatusFilter ==
    /\ fnIn.op = "none"
    /\ \E f \in 0..3 :
         /\ fnIn' = [op |-> "filter", arg |-> f]
         /\ fnOut' = [out |-> filteredJobs(jobs, FALSE, f), again |-> <<>>]
    /\ UNCHANGED <<dispVars, tmplVars, edVars>>

\* sortJobs on a copy of the list, and once more on its result.
applySortJobs ==
    /\ fnIn.op = "none"
    /\ \E mode \in 0..7 :
         \E once \in sortJobs(jobs, mode) :
           \E twice \in sortJobs(once, mode) :
             /\ fnIn' = [op |-> "sortJobs", arg |-> mode]
             /\ fnOut' = [out |-> once, again |-> twice]
    /\ UNCHANGED <<dispVars, tmplVars, edVars>>

ProjectNext == applyOwnJobs \/ applyStatusFilter \/ applySortJobs

SpecProject == ProjectInit /\ [][ProjectNext]_vars

\* Position of record r in list s (records of a snapshot have distinct
\* names); 0 when it is not there.
indexIn(s, r) == IF r \in Range(s) THEN CHOOSE i \in DOMAIN s : s[i] = r ELSE 0

startsWith(name, user) ==
    Len(user) <= Len(name) /\ \A i \in 1..Len(user) : name[i] = user[i]

keepsOrderOf(out, s) ==
    \A i, j \in DOMAIN out : i < j => indexIn(s, out[i]) < indexIn(s, out[j])

\* C15: for every identity and snapshot, the ownership filter returns a
\* sub-collection of the snapshot in which every name starts with the
\* identity, no record whose name starts with it is left out, and which is
\* no longer than the snapshot.
C15_OwnershipFilterExact ==
    fnIn.op = "ownJobs" =>
        /\ Range(fnOut.out) = {r \in Range(jobs) : startsWith(r.Name, fnIn.arg)}
        /\ Len(fnOut.out) = Cardinality(Range(fnOut.out))
        /\ keepsOrderOf(fnOut.out, jobs)
        /\ Len(fnOut.out) <= Len(jobs)

\* The identity occurs inside the name of a record that is dropped, while
\* another record is kept.
C15_Witness ==
    /\ fnIn.op = "ownJobs"
    /\ fnIn.arg = CurrentUser
    /\ Len(jobs) = 3
    /\ Len(fnOut.out) = 2
    /\ \E r \in Range(jobs) : r \notin Range(fnOut.out) /\ startsWith(r.Name, OtherUser)

statusNamed(f) ==
    IF f = FilterRunning THEN "Running"
    ELSE IF f = FilterFailed THEN "Failed"
    ELSE "Pending"

\* C16: the status filter set to Running, Failed or Pending keeps exactly
\* the records with that derived status, each once and in their order; set
\* to All it returns the list as it is.
C16_StatusFilterExact ==
    fnIn.op = "filter" =>
        IF fnIn.arg = FilterAll
        THEN fnOut.out = jobs
        ELSE /\ Range(fnOut.out) = {r \in Range(jobs) : r.Status = statusNamed(fnIn.arg)}
             /\ Len(fnOut.out) = Cardinality(Range(fnOut.out))
             /\ keepsOrderOf(fnOut.out, jobs)

\* A Failed filter on a list holding a failed, a completed and a running
\* job.
C16_Witness ==
    /\ fnIn = [op |-> "filter", arg |-> FilterFailed]
    /\ Len(fnOut.out) = 1
    /\ {r.Status : r \in Range(jobs)} = {"Failed", "Complete", "Running"}

sortKey(mode, r) ==
    IF mode \in {SortAgeDesc, SortAgeAsc} THEN parseAge(r.Age)
    ELSE IF mode \in {SortDurationDesc, SortDurationAsc} THEN parseDuration(r.Duration)
    ELSE IF mode \in {SortGPUCountAsc, SortGPUCountDesc} THEN r.GPUCount
    ELSE getGPUTypePriority(r.GPUInfo)

ascending(mode) == mode \in {SortAgeAsc, SortDurationAsc, SortGPUCountAsc, SortGPUTypeAsc}

\* C17: in each of the eight modes, two records with equal keys leave the
\* sort in the order in which they entered it.
C17_SortStable ==
    fnIn.op = "sortJobs" =>
        \A i, j \in DOMAIN jobs :
            (i < j /\ sortKey(fnIn.arg, jobs[i]) = sortKey(fnIn.arg, jobs[j]))
                => indexIn(fnOut.out, jobs[i]) < indexIn(fnOut.out, jobs[j])

\* C18: sorting the result of a sort again in the same mode returns the
\* same sequence.
C18_SortIdempotent ==
    fnIn.op = "sortJobs" => fnOut.again = fnOut.out

\* C19: the sorted list holds the records of its input, each once, and the
\* keys of consecutive records do not decrease in an ascending mode and do
\* not increase in a descending one.
C19_SortedPermutation ==
    fnIn.op = "sortJobs" =>
        /\ Len(fnOut.out) = Len(jobs)
        /\ Range(fnOut.out) = Range(jobs)
        /\ \A i \in 1..(Len(fnOut.out) - 1) :
              IF ascending(fnIn.arg)
              THEN sortKey(fnIn.arg, fnOut.out[i]) <= sortKey(fnIn.arg, fnOut.out[i + 1])
              ELSE sortKey(fnIn.arg, fnOut.out[i]) >= sortKey(fnIn.arg, fnOut.out[i + 1])

\* Three records that enter by descending GPU count and leave by
\* ascending GPU count.
C19_Witness ==
    /\ fnIn = [op |-> "sortJobs", arg |-> SortGPUCountAsc]
    /\ Len(jobs) = 3
    /\ jobs[1].GPUCount > jobs[3].GPUCount
    /\ fnOut.out[1].GPUCount < fnOut.out[3].GPUCount

----------------------------------------------------------------------------
(* A session of filter, sort and hide keys over one snapshot: C20 *)

\* fnIn keeps the snapshot as getJobs returned it.
SessionInit ==
    /\ fnIn \in Snapshots
    /\ \E sorted \in sortJobs(fnIn, SortAgeDesc) :
          /\ jobs = sorted
          /\ table = sorted
    /\ view = "MainView"
    /\ modalText = ""
    /\ modalJob = <<>>
    /\ selection = 0
    /\ currentFilter = FilterAll
    /\ currentSort = SortAgeDesc
    /\ showOnlyUser = FALSE
    /\ elapsed = 0
    /\ cluster = <<>>
    /\ calls = <<>>
    /\ TmplIdle
    /\ EdIdle
    /\ fnOut = <<>>

SessionNext == handleFilter \/ handleSort \/ handleHide

SpecSession == SessionInit /\ [][SessionNext]_vars

\* The arrangement of s by mode that keeps records with equal keys in the
\* order of s.
stableSorted(s, mode) ==
    CHOOSE out \in sortJobs(s, mode) :
        \A i, j \in DOMAIN s :
            (i < j /\ sortKey(mode, s[i]) = sortKey(mode, s[j]))
                => indexIn(out, s[i]) < indexIn(out, s[j])

project(snapshot, only, f, mode) == stableSorted(filteredJobs(snapshot, only, f), mode)

\* C20: what the table shows is the projection of the snapshot under the
\* current FilterState and identity, whatever keys were pressed before.
C20_ProjectionHasNoHiddenState ==
    table = project(fnIn, showOnlyUser, currentFilter, currentSort)

projectionKey == handleFilter \/ handleSort \/ handleHide

\* C21: the filter, sort and ownership keys, and the projection they
\* trigger, leave the stored snapshot as it was: the same records in the
\* same order.
C21_SnapshotReadOnlyDownstream ==
    [][projectionKey => jobs' = jobs]_vars

----------------------------------------------------------------------------
(* The formatting functions of the summarizer on bounded inputs:
   C25, C26, C27.  Each behaviour applies one function once. *)

\* Most whole days of an elapsed time.
MaxDays == 2

\* Completion times, in minutes before now; NoTime: not completed.
EndTimes == {NoTime, 0, 30}

L40S == <<"L", "4", "0", "S">>

\* Values of the nvidia.com/gpu.product node selector; <<>>: none.
GpuProducts ==
    {<<>>, L40S, H100, A100 \o <<"-">> \o G80 \o <<"B">>, H200 \o <<"-">> \o G40}

\* What the summarizer is given of a job, and the nvidia.com/gpu limit of
\* its first container (0: zero or absent).
SummarizedJobs ==
    [containers : 0..1, gpuLimit : 0..MaxCount, gpuModel : GpuProducts,
     active : 0..MaxCount, succeeded : 0..MaxCount, failed : 0..MaxCount]

SummarizeInit ==
    /\ DispIdle
    /\ TmplIdle
    /\ EdIdle
    /\ fnIn = [op |-> "none"]
    /\ fnOut = <<>>

applyFmtDuration ==
    /\ fnIn.op = "none"
    /\ \E d \in 0..MaxDays, h \in 0..23, mi \in 0..59, end \in EndTimes :
         LET elapsedMinutes == (d * 24 + h) * 60 + mi
             start == elapsedMinutes + (IF end = NoTime THEN 0 ELSE end)
         IN  /\ fnIn' = [op |-> "fmtDuration", days |-> d, hours |-> h, minutes |-> mi,
                         end |-> end]
             /\ fnOut' = fmtDuration(start, end)
    /\ UNCHANGED <<dispVars, tmplVars, edVars>>

\* fmtDuration of a job that has no start time.
applyFmtDurationNotStarted ==
    /\ fnIn.op = "none"
    /\ \E end \in EndTimes :
         /\ fnIn' = [op |-> "fmtDuration of no start", end |-> end]
         /\ fnOut' = fmtDuration(NoTime, end)
    /\ UNCHANGED <<dispVars, tmplVars, edVars>>

applyAge ==
    /\ fnIn.op = "none"
    /\ \E d \in 0..MaxDays, h \in 0..23, mi \in 0..59 :
         /\ fnIn' = [op |-> "age", days |-> d, hours |-> h, minutes |-> mi, end |-> NoTime]
         /\ fnOut' = age((d * 24 + h) * 60 + mi)
    /\ UNCHANGED <<dispVars, tmplVars, edVars>>

applySummarizeGPU ==
    /\ fnIn.op = "none"
    /\ \E job \in SummarizedJobs :
         /\ fnIn' = [op |-> "summarizeGPU", job |-> job]
         /\ fnOut' = summarizeGPU(job)
    /\ UNCHANGED <<dispVars, tmplVars, edVars>>

\* The texts of the GPU column: a family, or none of the three known
\* ones; a memory class as summarizeGPU writes it or as the node selector
\* spells it, or none; behind the waiting marker or not.
GpuDescriptors ==
    [waiting : BOOLEAN,
     family : {<<>>, A100, H100, H200},
     memory : {<<>>, G40, G80, G40 \o <<"B">>, G80 \o <<"B">>}]

gpuText(d) ==
    (IF d.waiting THEN EMOJI_WAITING \o <<" ">> ELSE <<>>)
    \o (IF d.family = <<>> THEN <<"U", "n", "k", "n", "o", "w", "n">> ELSE d.family)
    \o (IF d.memory = <<>> THEN <<>> ELSE <<"-">> \o d.memory)

\* getGPUTypePriority on the two records a comparison of sortJobs holds.
applyGetGPUTypePriority ==
    /\ fnIn.op = "none"
    /\ \E a, b \in GpuDescriptors :
         /\ fnIn' = [op |-> "getGPUTypePriority", a |-> a, b |-> b]
         /\ fnOut' = <<getGPUTypePriority(gpuText(a)), getGPUTypePriority(gpuText(b))>>
    /\ UNCHANGED <<dispVars, tmplVars, edVars>>

SummarizeNext ==
    \/ applyFmtDuration
    \/ applyFmtDurationNotStarted
    \/ applyAge
    \/ applySummarizeGPU
    \/ applyGetGPUTypePriority

SpecSummarize == SummarizeInit /\ [][SummarizeNext]_vars

\* C25: an elapsed time of D days, H hours and M minutes is written
\* "{D}d{H}h{M}m" when D > 0, "{H}h{M}m" when D = 0 and H > 0, and "{M}m"
\* otherwise, by fmtDuration (to the completion time when there is one,
\* else to now) and by age; 25 hours 3 minutes is "1d1h3m" and 45 minutes
\* is "45m".
C25_FormatDaysHoursMinutes ==
    fnIn.op \in {"fmtDuration", "age"} =>
        LET D == Itoa(fnIn.days) \o <<"d">>
            H == Itoa(fnIn.hours) \o <<"h">>
            M == Itoa(fnIn.minutes) \o <<"m">>
        IN  /\ fnOut = IF fnIn.days > 0 THEN D \o H \o M
                       ELSE IF fnIn.hours > 0 THEN H \o M
                       ELSE M
            /\ (fnIn.days = 1 /\ fnIn.hours = 1 /\ fnIn.minutes = 3)
                  => fnOut = <<"1", "d", "1", "h", "3", "m">>
            /\ (fnIn.days = 0 /\ fnIn.hours = 0 /\ fnIn.minutes = 45)
                  => fnOut = <<"4", "5", "m">>

\* 25 hours 3 minutes of a job that completed half an hour ago.
C25_Witness ==
    /\ fnIn.op = "fmtDuration"
    /\ fnIn.days = 1 /\ fnIn.hours = 1 /\ fnIn.minutes = 3
    /\ fnIn.end = 30
    /\ fnOut = <<"1", "d", "1", "h", "3", "m">>

NoGPU == <<"N", "o", " ", "G", "P", "U">>

\* C26: summarizeGPU returns "No GPU" exactly when the accelerator
\* quantity of the job is zero or absent, whatever the node selector says.
C26_NoGPUSentinel ==
    fnIn.op = "summarizeGPU" => (fnOut = NoGPU <=> fnIn.job.gpuLimit = 0)

\* C27: for a job that derives to Pending and has no pod, summarizeGPU
\* returns a text that starts with the waiting marker.
C27_PendingCarriesWaitingMarker ==
    (/\ fnIn.op = "summarizeGPU"
     /\ fnIn.job.active + fnIn.job.succeeded + fnIn.job.failed = 0)
        => /\ deriveStatus(fnIn.job.active, fnIn.job.succeeded, fnIn.job.failed) = "Pending"
           /\ startsWith(fnOut, EMOJI_WAITING)
           /\ fnOut # NoGPU

familyRank(d) ==
    CASE d.family = H200 -> 3
      [] d.family = H100 -> 2
      [] d.family = A100 -> 1
      [] OTHER -> 0

memoryRank(d) ==
    IF HasPrefix(d.memory, G80) THEN 2
    ELSE IF HasPrefix(d.memory, G40) THEN 1
    ELSE 0

\* C32: of two GPU texts the one of the higher family (H200 > H100 > A100 >
\* none) has the strictly higher rank whatever the memory classes; in one
\* family 80G > 40G > none; the rank is the sum of a family part and a
\* memory part; the waiting marker changes nothing.
C32_FamilyDominatesMemory ==
    fnIn.op = "getGPUTypePriority" =>
        LET a == fnIn.a
            b == fnIn.b
            bare(d) == getGPUTypePriority(gpuText([d EXCEPT !.memory = <<>>]))
        IN  /\ familyRank(a) > familyRank(b) => fnOut[1] > fnOut[2]
            /\ (familyRank(a) = familyRank(b) /\ memoryRank(a) > memoryRank(b))
                  => fnOut[1] > fnOut[2]
            /\ (familyRank(a) = familyRank(b) /\ memoryRank(a) = memoryRank(b))
                  => fnOut[1] = fnOut[2]
            /\ memoryRank(a) = memoryRank(b)
                  => fnOut[1] - bare(a) = fnOut[2] - bare(b)

\* A waiting H100 without memory class against a running A100-80G.
C32_Witness ==
    /\ fnIn.op = "getGPUTypePriority"
    /\ fnIn.a = [waiting |-> TRUE, family |-> H100, memory |-> <<>>]
    /\ fnIn.b = [waiting |-> FALSE, family |-> A100, memory |-> G80]
    /\ fnOut[1] > fnOut[2]

\* C33: parseDuration and parseAge give back the whole minutes of the
\* elapsed time fmtDuration and age wrote, a segment that is not written
\* counting as zero; the text fmtDuration writes for a job without start
\* time parses to zero.
C33_ParseInvertsFormat ==
    /\ fnIn.op = "fmtDuration"
          => parseDuration(fnOut) = (fnIn.days * 24 + fnIn.hours) * 60 + fnIn.minutes
    /\ fnIn.op = "age"
          => parseAge(fnOut) = (fnIn.days * 24 + fnIn.hours) * 60 + fnIn.minutes
    /\ fnIn.op = "fmtDuration of no start" => parseDuration(fnOut) = 0

\* Two hours three minutes: no days segment is written.
C33_Witness ==
    /\ fnIn.op = "age"
    /\ fnIn.days = 0 /\ fnIn.hours = 2 /\ fnIn.minutes = 3
    /\ fnOut = <<"2", "h", "3", "m">>

----------------------------------------------------------------------------
(* Normalization of template text put together from placeholders and
   other text: C34 *)

\* Most segments of one text.
MaxSegments == 3

\* A segment is a placeholder (name, default) or other text; among the
\* other texts are an opening "${" that nothing closes and the tail of a
\* placeholder.
Segments ==
    {[name |-> n, default |-> <<"x">>, text |-> <<>>] : n \in {<<"A">>, <<"B">>}}
    \cup {[name |-> <<>>, default |-> <<>>, text |-> t] :
            t \in {<<"t">>, <<"$">>, <<"$", "{">>, <<":", "-", "y", "}">>}}

SegmentLists == UNION {[1..n -> Segments] : n \in 0..MaxSegments}

RECURSIVE textOf(_)
textOf(segs) ==
    IF segs = <<>> THEN <<>>
    ELSE (IF Head(segs).name # <<>>
          THEN Placeholder(Head(segs).name, Head(segs).default)
          ELSE Head(segs).text)
         \o textOf(Tail(segs))

\* The content downloadBaseConfig writes to the template file for a base
\* template of this text.
applyReplaceAllString ==
    /\ fnIn.op = "none"
    /\ \E segs \in SegmentLists :
         /\ fnIn' = [op |-> "ReplaceAllString", segs |-> segs]
         /\ fnOut' = replaceAllFrom(textOf(segs), 1)
    /\ UNCHANGED <<dispVars, tmplVars, edVars>>

NormalizeNext == applyReplaceAllString

SpecNormalize == SummarizeInit /\ [][NormalizeNext]_vars

\* The text with "$" and the name in the place of every placeholder.
RECURSIVE markersOf(_)
markersOf(segs) ==
    IF segs = <<>> THEN <<>>
    ELSE (IF Head(segs).name # <<>> THEN <<"$">> \o Head(segs).name
          ELSE Head(segs).text)
         \o markersOf(Tail(segs))

normalizedAsClaimed ==
    /\ fnOut = markersOf(fnIn.segs)
    /\ \A i \in 1..Len(fnOut) : ~matchAt(fnOut, i).ok

----------------------------------------------------------------------------
(* deriveStatus as a function of the three pod counts: C4 *)

\* Largest pod count the function is applied to.
MaxPods == 4

StatusInit ==
    /\ DispIdle
    /\ TmplIdle
    /\ EdIdle
    /\ fnIn = <<>>
    /\ fnOut = "none"

applyDeriveStatus ==
    /\ \E a, s, f \in 0..MaxPods :
         /\ fnIn' = <<a, s, f>>
         /\ fnOut' = deriveStatus(a, s, f)
    /\ UNCHANGED <<dispVars, tmplVars, edVars>>

StatusNext == applyDeriveStatus

SpecStatus == StatusInit /\ [][StatusNext]_vars

\* C4: deriveStatus returns exactly one of the four values, decided by the
\* counts alone: Running if active > 0, else Complete if succeeded > 0,
\* else Failed if failed > 0, else Pending.
C4_DeriveStatusTotal ==
    fnIn # <<>> =>
        LET active == fnIn[1]
            succeeded == fnIn[2]
            failed == fnIn[3]
        IN  /\ fnOut \in {"Running", "Complete", "Failed", "Pending"}
            /\ fnOut = "Running" <=> active > 0
            /\ fnOut = "Complete" <=> (active = 0 /\ succeeded > 0)
            /\ fnOut = "Failed" <=> (active = 0 /\ succeeded = 0 /\ failed > 0)
            /\ fnOut = "Pending" <=> (active = 0 /\ succeeded = 0 /\ failed = 0)

C4_Witness ==
    /\ fnIn = <<1, 1, 1>>
    /\ fnOut = "Running"

====
